---- MODULE Spec2Model ----
(***************************************************************************)
(* Caldav-Tasks-API: the VTODO codec (TaskData.to_ical / TaskData.from_ical *)
(* of utils/data.py) and the reconciliation engine (TasksAPI.add_task,      *)
(* update_task, delete_task, load_remote_data of caldav_tasks_api.py).      *)
(*                                                                         *)
(* A Python str is a sequence of characters; a character is a one-letter   *)
(* string, except the four that TLA+ cannot write as one letter:           *)
(* LF (line feed), CR (carriage return), TAB and BSL (backslash).          *)
(***************************************************************************)
EXTENDS Integers, Sequences, FiniteSets, TLC

LF == "LF"
CR == "CR"
TAB == "TAB"
BSL == "BSL"

(***************************************************************************)
(* str primitives, as Python computes them                                 *)
(***************************************************************************)

\* s[i:i+len(pat)] == pat, i counted from 1
IsAt(s, pat, i) ==
    /\ i + Len(pat) - 1 <= Len(s)
    /\ \A k \in 1..Len(pat) : s[i + k - 1] = pat[k]

StartsWith(s, pat) == IsAt(s, pat, 1)

\* the positions of s, in order, where pat occurs
Occurrences(s, pat) ==
    SelectSeq([i \in 1..Len(s) |-> i], LAMBDA i : IsAt(s, pat, i))

\* pat in s, pat non-empty
Contains(s, pat) == Occurrences(s, pat) # <<>>

\* s.find(pat), pat non-empty: the lowest 0-based index, -1 when absent
Find(s, pat) ==
    LET occ == Occurrences(s, pat)
    IN  IF occ # <<>> THEN occ[1] - 1 ELSE -1

\* s[start:end] with 0-based, non-negative start and end
Slice(s, start, end) ==
    SubSeq(s, start + 1, IF end > Len(s) THEN Len(s) ELSE end)

RECURSIVE Join(_, _)
\* sep.join(parts)
Join(parts, sep) ==
    IF Len(parts) = 0 THEN <<>>
    ELSE IF Len(parts) = 1 THEN parts[1]
    ELSE parts[1] \o sep \o Join(Tail(parts), sep)

\* s.replace(pat, rep) for a non-empty pat that cannot overlap itself (one
\* character, or two different ones): every occurrence is replaced
Replace(s, pat, rep) ==
    LET at == Occurrences(s, pat)
    IN  Join([k \in 1..(Len(at) + 1) |->
                SubSeq(s,
                       IF k = 1 THEN 1 ELSE at[k - 1] + Len(pat),
                       IF k = Len(at) + 1 THEN Len(s) ELSE at[k] - 1)],
             rep)

\* the line boundaries of str.splitlines
LineBreaks == {LF, CR}

\* the positions of s, in order, where a cut by a character of seps starts
\* (an LF right after a CR belongs to the cut the CR starts)
Positions(s, seps) ==
    SelectSeq([i \in 1..Len(s) |-> i],
              LAMBDA i : /\ s[i] \in seps
                         /\ ~(CR \in seps /\ s[i] = LF /\ i > 1 /\ s[i - 1] = CR))

\* the width of the cut at position i: 2 for CR LF among line breaks
CutWidth(s, seps, i) ==
    IF CR \in seps /\ s[i] = CR /\ i < Len(s) /\ s[i + 1] = LF THEN 2 ELSE 1

\* the pieces of s between the cuts
Pieces(s, seps) ==
    LET at == Positions(s, seps)
    IN  [k \in 1..(Len(at) + 1) |->
            SubSeq(s,
                   IF k = 1 THEN 1 ELSE at[k - 1] + CutWidth(s, seps, at[k - 1]),
                   IF k = Len(at) + 1 THEN Len(s) ELSE at[k] - 1)]

\* s.split(c) for a one-character separator other than CR
Split(s, c) == Pieces(s, {c})

\* s.split(c, 1)[0]
SplitFirst(s, c) ==
    IF Contains(s, <<c>>) THEN Slice(s, 0, Find(s, <<c>>)) ELSE s

\* s.split(c, 1)[-1]
SplitRest(s, c) ==
    IF Contains(s, <<c>>) THEN Slice(s, Find(s, <<c>>) + 1, Len(s)) ELSE s

\* s.splitlines(): CR LF is one boundary, and there is no empty last line
\* after a final line break
SplitLines(s) ==
    LET all == Pieces(s, LineBreaks)
    IN  IF all[Len(all)] = <<>> THEN SubSeq(all, 1, Len(all) - 1) ELSE all

Whitespace == {" ", TAB, LF, CR}

RECURSIVE LStrip(_)
LStrip(s) ==
    IF s # <<>> /\ s[1] \in Whitespace THEN LStrip(Tail(s)) ELSE s

RECURSIVE RStrip(_)
RStrip(s) ==
    IF s # <<>> /\ s[Len(s)] \in Whitespace
    THEN RStrip(SubSeq(s, 1, Len(s) - 1)) ELSE s

\* s.strip()
Strip(s) == RStrip(LStrip(s))

\* the letters str.upper() and str.lower() change (ASCII)
UpperOf ==
    [ a |-> "A", b |-> "B", c |-> "C", d |-> "D", e |-> "E", f |-> "F",
      g |-> "G", h |-> "H", i |-> "I", j |-> "J", k |-> "K", l |-> "L",
      m |-> "M", n |-> "N", o |-> "O", p |-> "P", q |-> "Q", r |-> "R",
      s |-> "S", t |-> "T", u |-> "U", v |-> "V", w |-> "W", x |-> "X",
      y |-> "Y", z |-> "Z" ]
LowerOf ==
    [ A |-> "a", B |-> "b", C |-> "c", D |-> "d", E |-> "e", F |-> "f",
      G |-> "g", H |-> "h", I |-> "i", J |-> "j", K |-> "k", L |-> "l",
      M |-> "m", N |-> "n", O |-> "o", P |-> "p", Q |-> "q", R |-> "r",
      S |-> "s", T |-> "t", U |-> "u", V |-> "v", W |-> "w", X |-> "x",
      Y |-> "y", Z |-> "z" ]

UpperChar(c) == IF c \in DOMAIN UpperOf THEN UpperOf[c] ELSE c

LowerChar(c) == IF c \in DOMAIN LowerOf THEN LowerOf[c] ELSE c

\* s.upper()
Upper(s) == [i \in 1..Len(s) |-> UpperChar(s[i])]

\* s.lower()
Lower(s) == [i \in 1..Len(s) |-> LowerChar(s[i])]

Digits == <<"0","1","2","3","4","5","6","7","8","9">>

IsDigit(c) == \E i \in 1..Len(Digits) : Digits[i] = c

DigitVal(c) == (CHOOSE i \in 1..Len(Digits) : Digits[i] = c) - 1

RECURSIVE NatToStr(_)
NatToStr(n) ==
    IF n < 10 THEN <<Digits[n + 1]>>
    ELSE NatToStr(n \div 10) \o <<Digits[(n % 10) + 1]>>

\* str(n) / f"{n}" for an int
IntToStr(n) == IF n < 0 THEN <<"-">> \o NatToStr(0 - n) ELSE NatToStr(n)

RECURSIVE DigitsVal(_, _)
DigitsVal(s, acc) ==
    IF s = <<>> THEN acc ELSE DigitsVal(Tail(s), 10 * acc + DigitVal(s[1]))

AllDigits(s) == s # <<>> /\ \A i \in 1..Len(s) : IsDigit(s[i])

\* the sign and the rest of a stripped numeric literal
NumSign(s) == IF s # <<>> /\ s[1] = "-" THEN -1 ELSE 1
NumBody(s) == IF s # <<>> /\ s[1] \in {"-", "+"} THEN Tail(s) ELSE s

\* int(value): [ok |-> whether it parses, val |-> its value]; a ValueError otherwise
ParseInt(value) ==
    LET s == Strip(value)
        b == NumBody(s)
    IN  IF AllDigits(b) THEN [ok |-> TRUE, val |-> NumSign(s) * DigitsVal(b, 0)]
        ELSE [ok |-> FALSE, val |-> 0]

S_inf == <<"i","n","f">>
S_infinity == <<"i","n","f","i","n","i","t","y">>
S_nan == <<"n","a","n">>

\* int(float(value)): kind "num" with the truncated value, "inf" (int() raises
\* OverflowError), "nan" and "bad" (ValueError)
ParseIntOfFloat(value) ==
    LET s == Strip(value)
        b == NumBody(s)
        whole == SplitFirst(b, ".")
        frac == IF Contains(b, <<".">>) THEN SplitRest(b, ".") ELSE <<>>
    IN  IF Lower(b) \in {S_inf, S_infinity} THEN [kind |-> "inf", val |-> 0]
        ELSE IF Lower(b) = S_nan THEN [kind |-> "nan", val |-> 0]
        ELSE IF /\ (whole = <<>> \/ AllDigits(whole))
                /\ (frac = <<>> \/ AllDigits(frac))
                /\ (whole # <<>> \/ frac # <<>>)
             THEN [kind |-> "num", val |-> NumSign(s) * DigitsVal(whole, 0)]
        ELSE [kind |-> "bad", val |-> 0]


(***************************************************************************)
(* utils/data.py: TaskData and the VTODO codec                             *)
(***************************************************************************)

S_BEGIN_VTODO == <<"B","E","G","I","N",":","V","T","O","D","O">>
S_END_VTODO == <<"E","N","D",":","V","T","O","D","O">>
S_UID == <<"U","I","D">>
S_SUMMARY == <<"S","U","M","M","A","R","Y">>
S_DESCRIPTION == <<"D","E","S","C","R","I","P","T","I","O","N">>
S_DTSTAMP == <<"D","T","S","T","A","M","P">>
S_LAST_MODIFIED == <<"L","A","S","T","-","M","O","D","I","F","I","E","D">>
S_STATUS == <<"S","T","A","T","U","S">>
S_COMPLETED == <<"C","O","M","P","L","E","T","E","D">>
S_NEEDS_ACTION == <<"N","E","E","D","S","-","A","C","T","I","O","N">>
S_PERCENT_COMPLETE == <<"P","E","R","C","E","N","T","-","C","O","M","P","L","E","T","E">>
S_DUE == <<"D","U","E">>
S_DTSTART == <<"D","T","S","T","A","R","T">>
S_VALUE_DATE == <<";","V","A","L","U","E","=","D","A","T","E">>
S_PRIORITY == <<"P","R","I","O","R","I","T","Y">>
S_RELATED_TO == <<"R","E","L","A","T","E","D","-","T","O">>
S_CATEGORIES == <<"C","A","T","E","G","O","R","I","E","S">>
S_RRULE == <<"R","R","U","L","E">>
S_X == <<"X","-">>
S_ESC_LF == <<BSL, "n">>
S_ESC_COMMA == <<BSL, ",">>
S_ESC_SEMI == <<BSL, ";">>

\* TaskData(...) after __post_init__: an empty uid, created_at or changed_at is
\* replaced by a fresh uuid4 / the current time.  x_properties is the ordered
\* dict of XProperties, a sequence of [key, value] with distinct keys.  The
\* fields attachments, deleted, notified and trash are read by no codec or API
\* path and are left out.
TaskData(uid, list_uid, text, uuid, now) ==
    [ uid |-> IF uid = <<>> THEN uuid ELSE uid,
      text |-> text,
      notes |-> <<>>,
      created_at |-> now,
      changed_at |-> now,
      completed |-> FALSE,
      percent_complete |-> 0,
      due_date |-> <<>>,
      start_date |-> <<>>,
      priority |-> 0,
      parent |-> <<>>,
      tags |-> <<>>,
      rrule |-> <<>>,
      list_uid |-> list_uid,
      synced |-> FALSE,
      x_properties |-> <<>>,
      api_ref |-> FALSE ]

\* XProperties.__setitem__: dict assignment keeps the position of a known key
XSetItem(xp, key, value) ==
    IF \E i \in 1..Len(xp) : xp[i].key = key
    THEN [i \in 1..Len(xp) |->
            IF xp[i].key = key THEN [key |-> key, value |-> value] ELSE xp[i]]
    ELSE Append(xp, [key |-> key, value |-> value])

\* a property written without its line break
LineUnbroken(name, value) == name \o <<":">> \o value

\* f"{name}:{value}\n"
Line(name, value) == name \o <<":">> \o value \o <<LF>>

\* every value taken for a date without time
IsDateAlways(value) == TRUE

\* "T" not in value
IsDate(value) == ~Contains(value, <<"T">>)

EscapeNotes(v) == Replace(Replace(v, <<LF>>, S_ESC_LF), <<",">>, S_ESC_COMMA)

EscapeX(v) ==
    Replace(Replace(Replace(v, <<LF>>, S_ESC_LF), <<",">>, S_ESC_COMMA),
            <<";">>, S_ESC_SEMI)

\* a DESCRIPTION decoder that leaves the value as written
UnescapeNotesVerbatim(v) == v

UnescapeNotes(v) == Replace(Replace(v, S_ESC_LF, <<LF>>), S_ESC_COMMA, <<",">>)

UnescapeX(v) ==
    Replace(Replace(Replace(v, S_ESC_LF, <<LF>>), S_ESC_COMMA, <<",">>),
            S_ESC_SEMI, <<";">>)

\* to_ical leaving the stored percentage alone
ToIcalSelfKeepsPercent(t) == t

\* to_ical's side effect on self: percent_complete forced to 100 when completed
ToIcalSelf(t) ==
    IF t.completed /\ t.percent_complete < 100
    THEN [t EXCEPT !.percent_complete = 100] ELSE t

RECURSIVE XLines(_)
XLines(xp) ==
    IF xp = <<>> THEN <<>>
    ELSE Line(xp[1].key, EscapeX(xp[1].value)) \o XLines(Tail(xp))

\* TaskData.to_ical: the text it returns
ToIcal(t) ==
    S_BEGIN_VTODO \o <<LF>>
    \o Line(S_UID, t.uid)
    \o Line(S_SUMMARY, t.text)
    \o (IF t.notes # <<>> THEN Line(S_DESCRIPTION, EscapeNotes(t.notes)) ELSE <<>>)
    \o Line(S_DTSTAMP, t.created_at)
    \o Line(S_LAST_MODIFIED, t.changed_at)
    \o Line(S_STATUS, IF t.completed THEN S_COMPLETED ELSE S_NEEDS_ACTION)
    \o Line(S_PERCENT_COMPLETE, IntToStr(ToIcalSelf(t).percent_complete))
    \o (IF t.due_date # <<>>
        THEN Line(S_DUE \o (IF IsDate(t.due_date) THEN S_VALUE_DATE ELSE <<>>),
                  t.due_date)
        ELSE <<>>)
    \o (IF t.start_date # <<>>
        THEN Line(S_DTSTART \o (IF IsDate(t.start_date) THEN S_VALUE_DATE ELSE <<>>),
                  t.start_date)
        ELSE <<>>)
    \o (IF t.priority # 0 THEN Line(S_PRIORITY, IntToStr(t.priority)) ELSE <<>>)
    \o (IF t.parent # <<>> THEN Line(S_RELATED_TO, t.parent) ELSE <<>>)
    \o (IF t.tags # <<>> THEN Line(S_CATEGORIES, Join(t.tags, <<",">>)) ELSE <<>>)
    \o (IF t.rrule # <<>> THEN Line(S_RRULE, t.rrule) ELSE <<>>)
    \o XLines(t.x_properties)
    \o S_END_VTODO \o <<LF>>

\* from_ical: the VTODO part of the text
VtodoContent(ical) ==
    IF Contains(ical, S_BEGIN_VTODO)
    THEN LET start_idx == Find(ical, S_BEGIN_VTODO)
             end_idx == Find(ical, S_END_VTODO)
         IN  IF start_idx # -1 /\ end_idx # -1
             THEN Slice(ical, start_idx, end_idx) ELSE ical
    ELSE ical

RECURSIVE UnfoldFrom(_, _, _)
UnfoldFrom(lines, i, acc) ==
    IF i > Len(lines) THEN acc
    ELSE IF StartsWith(lines[i], <<" ">>) \/ StartsWith(lines[i], <<TAB>>)
         THEN UnfoldFrom(lines, i + 1,
                IF acc # <<>>
                THEN [acc EXCEPT ![Len(acc)] = @ \o Tail(lines[i])]
                ELSE acc)
    ELSE UnfoldFrom(lines, i + 1, Append(acc, lines[i]))

\* from_ical: RFC 5545 unfolding of the lines
Unfold(lines) == UnfoldFrom(lines, 1, <<>>)

RECURSIVE StripAll(_)
StripAll(parts) ==
    IF parts = <<>> THEN <<>>
    ELSE (IF Strip(parts[1]) # <<>> THEN <<Strip(parts[1])>> ELSE <<>>)
         \o StripAll(Tail(parts))

\* [tag.strip() for tag in value.split(",") if tag.strip()] if value else []
ParseTags(value) == IF value # <<>> THEN StripAll(Split(value, ",")) ELSE <<>>

\* from_ical: one pass of the loop over the unfolded lines
ParseLine(task, line) ==
    IF ~Contains(line, <<":">>) THEN task
    ELSE LET prop_part == SplitFirst(line, ":")
             prop_name == Upper(SplitFirst(prop_part, ";"))
             value == SplitRest(line, ":")
         IN  IF prop_name = S_UID THEN [task EXCEPT !.uid = value]
             ELSE IF prop_name = S_SUMMARY THEN [task EXCEPT !.text = value]
             ELSE IF prop_name = S_DESCRIPTION
                  THEN [task EXCEPT !.notes = UnescapeNotes(value)]
             ELSE IF prop_name = S_DTSTAMP THEN [task EXCEPT !.created_at = value]
             ELSE IF prop_name = S_LAST_MODIFIED
                  THEN [task EXCEPT !.changed_at = value]
             ELSE IF prop_name = S_STATUS
                  THEN [task EXCEPT !.completed = (value = S_COMPLETED)]
             ELSE IF prop_name = S_PERCENT_COMPLETE
                  THEN [task EXCEPT !.percent_complete =
                          IF ParseIntOfFloat(value).kind = "num"
                          THEN ParseIntOfFloat(value).val ELSE 0]
             ELSE IF prop_name = S_DUE THEN [task EXCEPT !.due_date = value]
             ELSE IF prop_name = S_DTSTART THEN [task EXCEPT !.start_date = value]
             ELSE IF prop_name = S_PRIORITY
                  THEN [task EXCEPT !.priority =
                          IF ParseInt(value).ok THEN ParseInt(value).val ELSE 0]
             ELSE IF prop_name = S_RELATED_TO THEN [task EXCEPT !.parent = value]
             ELSE IF prop_name = S_CATEGORIES
                  THEN [task EXCEPT !.tags = ParseTags(value)]
             ELSE IF prop_name = S_RRULE THEN [task EXCEPT !.rrule = value]
             ELSE IF StartsWith(prop_name, S_X)
                  THEN [task EXCEPT !.x_properties =
                          XSetItem(@, prop_part, UnescapeX(value))]
             ELSE task

RECURSIVE ParseLines(_, _, _)
ParseLines(task, lines, i) ==
    IF i > Len(lines) THEN task
    ELSE ParseLines(ParseLine(task, lines[i]), lines, i + 1)

\* the unfolded lines from_ical loops over
IcalLines(ical) == Unfold(SplitLines(VtodoContent(ical)))

\* from_ical raises: int(float(value)) of a PERCENT-COMPLETE line overflows
\* (OverflowError is not the ValueError the handler catches)
LinesRaise(lines) ==
    \E i \in 1..Len(lines) :
        /\ Contains(lines[i], <<":">>)
        /\ Upper(SplitFirst(SplitFirst(lines[i], ":"), ";")) = S_PERCENT_COMPLETE
        /\ ParseIntOfFloat(SplitRest(lines[i], ":")).kind = "inf"

\* from_ical without the uuid4 for a uid that is empty after the loop
FromLinesKeepsEmptyUid(lines, list_uid, uuid0, uuid1, now) ==
    [ParseLines(TaskData(<<>>, list_uid, <<>>, uuid0, now), lines, 1)
        EXCEPT !.synced = TRUE]

\* from_ical from the unfolded lines on, when it returns: uuid0 is the uuid4 of
\* the TaskData constructor, uuid1 the one drawn when the uid is empty after
\* the loop, now the constructor's clock reading
FromLines(lines, list_uid, uuid0, uuid1, now) ==
    LET task == ParseLines(TaskData(<<>>, list_uid, <<>>, uuid0, now), lines, 1)
        withUid == IF task.uid = <<>>
                   THEN [task EXCEPT !.uid = uuid1, !.synced = FALSE]
                   ELSE [task EXCEPT !.synced = TRUE]
    IN  IF withUid.changed_at = <<>> /\ withUid.created_at # <<>>
        THEN [withUid EXCEPT !.changed_at = withUid.created_at]
        ELSE withUid

FromIcalRaises(ical) == LinesRaise(IcalLines(ical))

\* TaskData.from_ical(ical, list_uid)
FromIcal(ical, list_uid, uuid0, uuid1, now) ==
    FromLines(IcalLines(ical), list_uid, uuid0, uuid1, now)

(***************************************************************************)
(* State: the codec exercised on its own, and one TasksAPI session with    *)
(* its caller and its CalDAV server                                        *)
(***************************************************************************)

VARIABLES
    c_pc,       \* "idle", "new" (a record to encode), "raw" (a text to
                \* decode), "encoded", "decoded", "raised", "reencoded"
    c_orig,     \* the record as the caller built it
    c_task,     \* the same record object, as to_ical leaves it
    c_ical,     \* to_ical(c_task), or the raw text
    c_back,     \* from_ical(c_ical, list_uid)
    c_ical2,    \* to_ical(c_back)
    x_pc,       \* "idle", "new" (a map and a name to ask it for), "got",
                \* "checked"
    x_map,      \* XProperties._raw_properties: [key, value] in insertion order
    x_query,    \* the attribute name or key asked for
    x_got,      \* what the attribute access or the `in` test gave
    read_only,      \* TasksAPI.read_only
    raw_calendars,  \* TasksAPI.raw_calendars: the ids of the cached calendars
    task_lists,     \* TasksAPI.task_lists: [uid, tasks] per loaded list
    store,          \* the server: calendar id -> its items [uid, data]
    task,           \* the TaskData object the caller holds
    picked,         \* where that object sits in task_lists: <<list, task>>
                    \* positions, <<>> when it is not one of the loaded
    last,           \* the last API call: its kind, outcome and what it saw
    ops,            \* the number of API calls made so far
    edits,          \* the fields the caller assigned, in the order of the assignments
    faults          \* the number of calls the server did not serve plainly

xVars == <<x_pc, x_map, x_query, x_got>>
codecVars == <<c_pc, c_orig, c_task, c_ical, c_back, c_ical2, xVars>>
apiVars ==
    <<read_only, raw_calendars, task_lists, store, task, picked, last, ops,
      edits, faults>>
vars == <<codecVars, apiVars>>

NoTask == [none |-> TRUE]
NoCall == [op |-> "none"]
NoAnswer == [kind |-> "none"]

U_1 == <<"u","1">>
U_P == <<"p">>
U_S == <<"s","9">>
UUID_A == <<"g","a">>
UUID_B == <<"g","b">>
L_1 == <<"L","1">>
L_2 == <<"L","2">>
L_9 == <<"L","9">>
NOW_1 == <<"2","0","2","5","0","1","0","1","T","0","0","0","0","0","0","Z">>
NOW_2 == <<"2","0","2","5","0","1","0","2","T","0","0","0","0","0","0","Z">>
NOW_S == <<"2","0","2","5","0","1","0","3","T","0","0","0","0","0","0","Z">>
D_DATE == <<"2","0","2","5","0","1","0","1">>
D_DATETIME == <<"2","0","2","5","0","1","0","1","T","1","2","0","0","0","0","Z">>

\* what uuid4() and the clock may return
Uuids == {UUID_A, UUID_B}
Nows == {NOW_1, NOW_2}

S_FREQ_DAILY == <<"F","R","E","Q","=","D","A","I","L","Y">>
S_FREQ_WEEKLY == <<"F","R","E","Q","=","W","E","E","K","L","Y">>

\* the calendars the server has
ServerLists == <<L_1, L_2>>

\* the server before the session: one task in the first calendar
StoreInit ==
    [l \in {L_1, L_2} |->
        IF l = L_1
        THEN << [uid |-> U_P,
                 data |-> ToIcal([TaskData(U_P, L_1, <<"r">>, UUID_B, NOW_1)
                                    EXCEPT !.rrule = S_FREQ_DAILY])] >>
        ELSE <<>>]

CodecIdle ==
    /\ c_pc = "idle"
    /\ c_orig = NoTask
    /\ c_task = NoTask
    /\ c_ical = <<>>
    /\ c_back = NoTask
    /\ c_ical2 = <<>>

XIdle ==
    /\ x_pc = "idle"
    /\ x_map = <<>>
    /\ x_query = <<>>
    /\ x_got = NoAnswer

ApiIdle ==
    /\ read_only = FALSE
    /\ raw_calendars = ServerLists
    /\ task_lists = <<>>
    /\ store = StoreInit
    /\ task = NoTask
    /\ picked = <<>>
    /\ last = NoCall
    /\ ops = 0
    /\ edits = <<>>
    /\ faults = 0

(***************************************************************************)
(* The codec applied to bounded inputs                                     *)
(***************************************************************************)

Summaries == {<<>>, <<"a",":"," ","b",",","c",";",BSL,"n">>}
NotesValues == {<<>>, <<"x",LF,"y",","," ","z">>, <<"C",":",BSL,"n","e","w">>}
DateValues == {<<>>, D_DATE, D_DATETIME}
Priorities == {0, 5}
Percents == {0, 50, 100}
TagLists == {<<>>, <<<<"a">>, <<"b","-","c">>>>}
XPropMaps ==
    { <<>>,
      << [key |-> <<"X","-","A">>, value |-> <<"v">>],
         [key |-> <<"x","-","b",";","P","=","1">>,
          value |-> <<"p",",","q",";","r",LF,"s">>] >> }

\* the records a caller builds: TaskData(...) followed by field assignments
TaskInputs ==
    { [TaskData(U_1, L_1, text, UUID_A, NOW_1) EXCEPT
          !.notes = notes, !.due_date = due, !.start_date = start,
          !.priority = prio, !.percent_complete = pct, !.completed = done,
          !.tags = tags, !.x_properties = xp] :
        text \in Summaries, notes \in NotesValues, due \in DateValues,
        start \in {<<>>, D_DATE}, prio \in Priorities, pct \in Percents,
        done \in BOOLEAN, tags \in TagLists, xp \in XPropMaps }

\* records with each optional field set or not, on their own
OptionInputs ==
    { [TaskData(U_1, L_1, <<"a">>, UUID_A, NOW_1) EXCEPT
          !.notes = notes, !.due_date = due, !.start_date = start,
          !.priority = prio, !.parent = parent, !.tags = tags,
          !.rrule = rrule, !.x_properties = xp] :
        notes \in {<<>>, <<"n">>}, due \in DateValues, start \in DateValues,
        prio \in Priorities, parent \in {<<>>, U_P},
        tags \in {<<>>, <<<<"a">>>>}, rrule \in {<<>>, S_FREQ_DAILY},
        xp \in XPropMaps }

S_abc_123 == <<"a","b","c","-","1","2","3">>

\* texts handed to from_ical that to_ical did not write: with a UID line,
\* with none, with an empty one, and with a PERCENT-COMPLETE of inf
RawTexts ==
    { S_BEGIN_VTODO \o <<LF>> \o Line(S_UID, S_abc_123)
        \o Line(S_SUMMARY, <<"a">>) \o S_END_VTODO \o <<LF>>,
      S_BEGIN_VTODO \o <<LF>> \o Line(S_SUMMARY, <<"a">>)
        \o Line(S_DTSTAMP, NOW_2) \o S_END_VTODO \o <<LF>>,
      S_BEGIN_VTODO \o <<LF>> \o Line(S_UID, <<>>)
        \o Line(S_SUMMARY, <<"a">>) \o S_END_VTODO \o <<LF>>,
      S_BEGIN_VTODO \o <<LF>> \o Line(S_UID, S_abc_123)
        \o Line(S_PERCENT_COMPLETE, S_inf) \o S_END_VTODO \o <<LF>> }

S_12_7 == <<"1","2",".","7">>
S_minus_3 == <<"-","3">>

\* values of a PERCENT-COMPLETE or PRIORITY line: none, no number, a
\* fraction, a signed integer, and the float literals inf and nan
NumericValues == {<<>>, <<"x">>, S_12_7, S_minus_3, S_inf, S_nan}

\* a VTODO text with one numeric line
NumericText(name, value) ==
    S_BEGIN_VTODO \o <<LF>> \o Line(S_UID, S_abc_123) \o Line(name, value)
        \o S_END_VTODO \o <<LF>>

NumericTexts ==
    {NumericText(name, value) :
        name \in {S_PERCENT_COMPLETE, S_PRIORITY}, value \in NumericValues}

\* texts in which from_ical finds no VTODO block: neither BEGIN:VTODO nor
\* END:VTODO, one of them only, and END:VTODO before BEGIN:VTODO
NoBlockTexts ==
    { Line(S_UID, S_abc_123) \o Line(S_SUMMARY, <<"a">>),
      S_BEGIN_VTODO \o <<LF>> \o Line(S_UID, S_abc_123)
        \o Line(S_SUMMARY, <<"a">>),
      Line(S_UID, S_abc_123) \o Line(S_SUMMARY, <<"a">>)
        \o S_END_VTODO \o <<LF>>,
      S_END_VTODO \o <<LF>> \o S_BEGIN_VTODO \o <<LF>>
        \o Line(S_UID, S_abc_123) \o Line(S_SUMMARY, <<"a">>) }

CodecInit ==
    /\ c_pc \in {"new", "raw"}
    /\ IF c_pc = "new"
       THEN c_orig \in TaskInputs \cup OptionInputs /\ c_ical = <<>>
       ELSE /\ c_orig = NoTask
            /\ c_ical \in RawTexts \cup NumericTexts \cup NoBlockTexts
    /\ c_task = c_orig
    /\ c_back = NoTask
    /\ c_ical2 = <<>>
    /\ XIdle
    /\ ApiIdle

\* ical_string = original_task.to_ical()
CodecToIcal ==
    /\ c_pc = "new"
    /\ c_ical' = ToIcal(c_task)
    /\ c_task' = ToIcalSelf(c_task)
    /\ c_pc' = "encoded"
    /\ UNCHANGED <<c_orig, c_back, c_ical2>>
    /\ UNCHANGED xVars
    /\ UNCHANGED apiVars

\* roundtrip_task = TaskData.from_ical(ical_string, list_uid)
CodecFromIcal ==
    /\ c_pc \in {"encoded", "raw"}
    /\ \E lines \in {IcalLines(c_ical)} :
         IF LinesRaise(lines)
         THEN c_pc' = "raised" /\ c_back' = c_back
         ELSE /\ c_pc' = "decoded"
              /\ \E uuid0 \in Uuids, now \in Nows : \E uuid1 \in Uuids \ {uuid0} :
                   c_back' = FromLines(lines, L_1, uuid0, uuid1, now)
    /\ UNCHANGED <<c_orig, c_task, c_ical, c_ical2>>
    /\ UNCHANGED xVars
    /\ UNCHANGED apiVars

\* second_ical_string = roundtrip_task.to_ical()
CodecToIcalAgain ==
    /\ c_pc = "decoded"
    /\ c_ical2' = ToIcal(c_back)
    /\ c_back' = ToIcalSelf(c_back)
    /\ c_pc' = "reencoded"
    /\ UNCHANGED <<c_orig, c_task, c_ical>>
    /\ UNCHANGED xVars
    /\ UNCHANGED apiVars

CodecNext == CodecToIcal \/ CodecFromIcal \/ CodecToIcalAgain

SpecCodec == CodecInit /\ [][CodecNext]_vars

\* C1: for every record built from the bounded summaries, notes (with
\* newlines and commas), dates, priorities, tags, percentages, completion
\* flags and two extension properties, encoding what was decoded from its
\* encoding gives the same text as encoding it
RoundTripIdempotent ==
    (c_pc = "reencoded" /\ c_orig # NoTask) => c_ical2 = c_ical

\* a record with multi-line notes, tags and two extension properties has gone
\* through to_ical, from_ical and to_ical
RoundTripDone ==
    /\ c_pc = "reencoded"
    /\ c_orig # NoTask
    /\ Contains(c_orig.notes, <<LF>>)
    /\ Contains(c_orig.notes, <<",">>)
    /\ Len(c_orig.x_properties) >= 2
    /\ c_orig.tags # <<>>
    /\ c_orig.due_date # <<>>
    /\ c_orig.completed
    /\ c_back.notes = c_orig.notes

\* the tags of a record, as a set
TagSet(t) == {t.tags[i] : i \in 1..Len(t.tags)}

\* C2: the record decoded from an encoding has the uid, text, notes, due
\* date, start date, priority, percent-complete and set of tags of the encoded
\* record, and each of its extension properties under the same key with the
\* same value
FieldsPreserved ==
    (c_pc = "decoded" /\ c_orig # NoTask) =>
        /\ c_back.uid = c_task.uid
        /\ c_back.text = c_task.text
        /\ c_back.notes = c_task.notes
        /\ c_back.due_date = c_task.due_date
        /\ c_back.start_date = c_task.start_date
        /\ c_back.priority = c_task.priority
        /\ c_back.percent_complete = c_task.percent_complete
        /\ TagSet(c_back) = TagSet(c_task)
        /\ \A i \in 1..Len(c_task.x_properties) :
             \E j \in 1..Len(c_back.x_properties) :
                c_back.x_properties[j] = c_task.x_properties[i]

\* the value of the first UID line of a text, <<>> when it has none
UidLineValue(ical) ==
    LET found == SelectSeq(IcalLines(ical),
                           LAMBDA l : StartsWith(l, S_UID \o <<":">>))
    IN  IF found = <<>> THEN <<>> ELSE SplitRest(found[1], ":")

\* C3: decoding a text with a UID line of value u gives uid = u and synced;
\* decoding a text without a UID line gives a fresh non-empty uid and not
\* synced
UidPreserved ==
    (c_pc = "decoded" /\ c_orig = NoTask) =>
        IF UidLineValue(c_ical) # <<>>
        THEN c_back.uid = UidLineValue(c_ical) /\ c_back.synced
        ELSE c_back.uid \in Uuids /\ ~c_back.synced


\* the lines of a text that give one property
LinesOf(ical, name) ==
    SelectSeq(SplitLines(ical), LAMBDA l : SplitFirst(SplitFirst(l, ":"), ";") = name)

\* C11: the encoding of a completed record has the one PERCENT-COMPLETE line
\* PERCENT-COMPLETE:100 and the one STATUS line STATUS:COMPLETED, whatever
\* percentage in 0..100 the record held
CompletedEmitsHundred ==
    (c_pc = "encoded" /\ c_orig.completed) =>
        /\ LinesOf(c_ical, S_PERCENT_COMPLETE)
             = <<S_PERCENT_COMPLETE \o <<":", "1", "0", "0">>>>
        /\ LinesOf(c_ical, S_STATUS) = <<S_STATUS \o <<":">> \o S_COMPLETED>>

\* a completed record holding 50 percent has been encoded
CompletedHalfEncoded ==
    /\ c_pc = "encoded"
    /\ c_orig.completed
    /\ c_orig.percent_complete = 50
    /\ c_orig.notes # <<>>

\* C12: to_ical leaves every field of the record as it was before the call
ToIcalLeavesRecord ==
    c_pc = "encoded" => c_task = c_orig

\* the property names of the lines of a text, parameters left out
LineNames(ical) ==
    LET lines == SplitLines(ical)
    IN  [i \in 1..Len(lines) |-> SplitFirst(SplitFirst(lines[i], ":"), ";")]

\* the property names the encoding of a record is to have, in order
ExpectedNames(t) ==
    LET opt(present, name) == IF present THEN <<name>> ELSE <<>>
    IN  <<<<"B","E","G","I","N">>, S_UID, S_SUMMARY>>
        \o opt(t.notes # <<>>, S_DESCRIPTION)
        \o <<S_DTSTAMP, S_LAST_MODIFIED, S_STATUS, S_PERCENT_COMPLETE>>
        \o opt(t.due_date # <<>>, S_DUE)
        \o opt(t.start_date # <<>>, S_DTSTART)
        \o opt(t.priority # 0, S_PRIORITY)
        \o opt(t.parent # <<>>, S_RELATED_TO)
        \o opt(t.tags # <<>>, S_CATEGORIES)
        \o opt(t.rrule # <<>>, S_RRULE)
        \o [i \in 1..Len(t.x_properties) |->
              SplitFirst(t.x_properties[i].key, ";")]
        \o <<<<"E","N","D">>>>

\* C14: the encoding is BEGIN:VTODO, END:VTODO and between them one line per
\* property in the order UID, SUMMARY, DESCRIPTION, DTSTAMP, LAST-MODIFIED,
\* STATUS, PERCENT-COMPLETE, DUE, DTSTART, PRIORITY, RELATED-TO, CATEGORIES,
\* RRULE, extension properties; STATUS and PERCENT-COMPLETE always, the
\* optional ones exactly when the field is not empty (priority not 0)
EncodeOrderAndOmission ==
    c_pc = "encoded" =>
        /\ LineNames(c_ical) = ExpectedNames(c_orig)
        /\ c_ical[Len(c_ical)] = LF
        /\ SplitLines(c_ical)[1] = S_BEGIN_VTODO
        /\ SplitLines(c_ical)[Len(SplitLines(c_ical))] = S_END_VTODO

\* a record with a parent and a recurrence rule but no notes, due date,
\* priority or tags has been encoded
SparseRecordEncoded ==
    /\ c_pc = "encoded"
    /\ c_orig.parent # <<>>
    /\ c_orig.rrule # <<>>
    /\ c_orig.notes = <<>>
    /\ c_orig.due_date = <<>>
    /\ c_orig.start_date # <<>>
    /\ c_orig.priority = 0
    /\ c_orig.tags = <<>>
    /\ c_orig.x_properties # <<>>

\* the line a date property is to have: the eight digits of a date without
\* time are marked VALUE=DATE, a date with time is not
DateLine(name, value) ==
    IF Len(value) = Len(D_DATE)
    THEN name \o S_VALUE_DATE \o <<":">> \o value
    ELSE name \o <<":">> \o value

\* C15: a due date without time component is written DUE;VALUE=DATE:<value>,
\* one with a time DUE:<value>, and the start date likewise under DTSTART
DateOnlyMarked ==
    c_pc = "encoded" =>
        /\ c_orig.due_date # <<>> =>
             LinesOf(c_ical, S_DUE) = <<DateLine(S_DUE, c_orig.due_date)>>
        /\ c_orig.start_date # <<>> =>
             LinesOf(c_ical, S_DTSTART)
               = <<DateLine(S_DTSTART, c_orig.start_date)>>

\* a record due 20250101T120000Z and starting 20250101 has been encoded
DueWithTimeEncoded ==
    /\ c_pc = "encoded"
    /\ c_orig.due_date = D_DATETIME
    /\ c_orig.start_date = D_DATE
    /\ LinesOf(c_ical, S_DUE) = <<S_DUE \o <<":">> \o D_DATETIME>>
    /\ LinesOf(c_ical, S_DTSTART) = <<S_DTSTART \o S_VALUE_DATE \o <<":">> \o D_DATE>>

\* the values of NumericValues that are no number
NotNumbers == {<<>>, <<"x">>, S_inf, S_nan}

\* C26: from_ical returns a record for a text with a PERCENT-COMPLETE or a
\* PRIORITY line of any of the values (empty, no number, a fraction, a signed
\* integer, inf, nan), and the field is 0 when the value is no number
NumericDecodeTotal ==
    \A name \in {S_PERCENT_COMPLETE, S_PRIORITY}, value \in NumericValues :
        (c_pc \in {"decoded", "raised"} /\ c_ical = NumericText(name, value)) =>
            /\ c_pc = "decoded"
            /\ value \in NotNumbers =>
                  (IF name = S_PERCENT_COMPLETE THEN c_back.percent_complete
                   ELSE c_back.priority) = 0

\* C27: the record decoded from a text with a DTSTAMP line and no
\* LAST-MODIFIED line has the value of the DTSTAMP line as created_at and as
\* changed_at
ChangedAtDefaultsToCreatedAt ==
    (/\ c_pc = "decoded"
     /\ LinesOf(c_ical, S_DTSTAMP) # <<>>
     /\ LinesOf(c_ical, S_LAST_MODIFIED) = <<>>) =>
        /\ c_back.created_at = SplitRest(LinesOf(c_ical, S_DTSTAMP)[1], ":")
        /\ c_back.changed_at = c_back.created_at

\* a text has a VTODO block that can be cut out: BEGIN:VTODO, and END:VTODO
\* after it
HasVtodoBlock(ical) ==
    /\ Contains(ical, S_BEGIN_VTODO)
    /\ Contains(ical, S_END_VTODO)
    /\ Find(ical, S_BEGIN_VTODO) < Find(ical, S_END_VTODO)

\* C28: from_ical does not return a record for a text without a VTODO block
DecodeRejectsNoBlock ==
    (c_pc \in {"decoded", "raised"} /\ ~HasVtodoBlock(c_ical)) =>
        c_pc = "raised"


(***************************************************************************)
(* The extension property map asked for names and keys                     *)
(***************************************************************************)

S_raw_properties == <<"_","r","a","w","_","p","r","o","p","e","r","t","i","e","s">>
S_get_raw_properties == <<"g","e","t","_","r","a","w","_","p","r","o","p","e","r","t","i","e","s">>
S_items == <<"i","t","e","m","s">>
S_X_APPLE_SORT_ORDER == <<"X","-","A","P","P","L","E","-","S","O","R","T","-","O","R","D","E","R">>
S_X_A_B_P == <<"X","-","A","-","B",";","P","=","1">>
S_X_A_B == <<"X","-","A","-","B">>
S_x_a_b == <<"x","-","a","_","b">>
S_X_ITEMS == <<"X","-","I","T","E","M","S">>
S_X_Test_Prop_AbC == <<"X","-","T","e","s","t","-","P","r","o","p","-","A","b","C">>
S_apple_sort_order == <<"a","p","p","l","e","_","s","o","r","t","_","o","r","d","e","r">>
S_a_b == <<"a","_","b">>
S_zz == <<"z","z">>
S_test_prop_abc == <<"t","e","s","t","_","p","r","o","p","_","a","b","c">>
S_x_apple_sort_order == <<"x","-","a","p","p","l","e","-","s","o","r","t","-","o","r","d","e","r">>
S_x_a_b_p == <<"x","-","a","-","b",";","p","=","1">>
S_x_test_prop_abc == <<"x","-","t","e","s","t","-","p","r","o","p","-","a","b","c">>
S_X_ZZ == <<"X","-","Z","Z">>

\* the names an XProperties object answers without __getattr__: its instance
\* attribute and the methods of the class
XPropertiesMembers ==
    { S_raw_properties, S_get_raw_properties, S_items }

\* __getattr__: raw_key.split(";")[0].lower(), without a leading "x-", with
\* underscores for hyphens
KeyForComparison(raw_key) ==
    LET lowered == Lower(SplitFirst(raw_key, ";"))
        bare == IF StartsWith(lowered, <<"x","-">>)
                THEN Slice(lowered, 2, Len(lowered)) ELSE lowered
    IN  Replace(bare, <<"-">>, <<"_">>)

\* XProperties.__getattr__(name)
XGetattr(xp, name) ==
    LET normalized_name_query == Lower(name)
        hits == SelectSeq(xp, LAMBDA e :
                    KeyForComparison(e.key) = normalized_name_query)
    IN  IF hits # <<>> THEN [kind |-> "value", value |-> hits[1].value]
        ELSE [kind |-> "AttributeError"]

\* xprops.<name>: Python calls __getattr__ only for a name that is no
\* attribute of the object and no member of its class
AttributeAccess(xp, name) ==
    IF name \in XPropertiesMembers THEN [kind |-> "member"]
    ELSE XGetattr(xp, name)

\* key.split("-", 2)
HyphenParts(key) ==
    IF ~Contains(key, <<"-">>) THEN <<key>>
    ELSE LET rest == SplitRest(key, "-")
         IN  IF ~Contains(rest, <<"-">>) THEN <<SplitFirst(key, "-"), rest>>
             ELSE <<SplitFirst(key, "-"), SplitFirst(rest, "-"),
                    SplitRest(rest, "-")>>

\* XProperties.__contains__(key)
XContains(xp, key) ==
    \/ \E i \in 1..Len(xp) : xp[i].key = key
    \/ \E i \in 1..Len(xp) : Lower(xp[i].key) = Lower(key)
    \/ LET parts == HyphenParts(key)
       IN  /\ Len(parts) >= 3
           /\ \E i \in 1..Len(xp) :
                LET raw_parts == HyphenParts(xp[i].key)
                IN  /\ Len(raw_parts) >= 3
                    /\ Lower(Join(SubSeq(parts, 1, 2), <<"-">>))
                         = Lower(Join(SubSeq(raw_parts, 1, 2), <<"-">>))
                    /\ Lower(parts[3]) = Lower(raw_parts[3])

\* the maps asked: the key of the sort order, a key with a parameter, two
\* keys with one normalized name, a key named like a method, none, and a key
\* with an id in mixed case
XMaps ==
    { << [key |-> S_X_APPLE_SORT_ORDER, value |-> <<"1">>] >>,
      << [key |-> S_X_A_B_P, value |-> <<"2">>] >>,
      << [key |-> S_X_A_B, value |-> <<"1">>],
         [key |-> S_x_a_b, value |-> <<"2">>] >>,
      << [key |-> S_X_ITEMS, value |-> <<"v">>] >>,
      <<>>,
      << [key |-> S_X_Test_Prop_AbC, value |-> <<"v">>] >> }

\* the names and keys asked for
XQueries ==
    { S_apple_sort_order, S_a_b, S_items, S_zz, S_test_prop_abc,
      S_x_apple_sort_order, S_x_a_b_p, S_x_test_prop_abc, S_X_A_B, S_X_ZZ }

XInit ==
    /\ x_pc = "new"
    /\ x_map \in XMaps
    /\ x_query \in XQueries
    /\ x_got = NoAnswer
    /\ CodecIdle
    /\ ApiIdle

\* getattr(x_properties, name)
XLookup ==
    /\ x_pc = "new"
    /\ x_got' = AttributeAccess(x_map, x_query)
    /\ x_pc' = "got"
    /\ UNCHANGED <<x_map, x_query, c_pc, c_orig, c_task, c_ical, c_back, c_ical2>>
    /\ UNCHANGED apiVars

\* key in x_properties
XCheck ==
    /\ x_pc = "new"
    /\ x_got' = [kind |-> "bool", value |-> XContains(x_map, x_query)]
    /\ x_pc' = "checked"
    /\ UNCHANGED <<x_map, x_query, c_pc, c_orig, c_task, c_ical, c_back, c_ical2>>
    /\ UNCHANGED apiVars

XNext == XLookup \/ XCheck

SpecXProps == XInit /\ [][XNext]_vars

\* the stored keys whose normalized name is the one asked for
KeysNamed(name) ==
    SelectSeq(x_map, LAMBDA e :
        /\ StartsWith(Upper(e.key), <<"X","-">>)
        /\ KeyForComparison(e.key) = name)

\* the stored keys that differ from the one asked for in letter case at most
KeysLike(key) == SelectSeq(x_map, LAMBDA e : Lower(e.key) = Lower(key))

\* C16, attribute part: asking for the normalized name of a stored X- key
\* gives that key's value, and asking for a name no stored key has fails
NormalizedLookup ==
    x_pc = "got" =>
        /\ \A i \in 1..Len(KeysNamed(x_query)) :
              x_got = [kind |-> "value", value |-> KeysNamed(x_query)[i].value]
        /\ KeysNamed(x_query) = <<>> => x_got = [kind |-> "AttributeError"]

\* C16, containment part: a key that differs from a stored one in letter case
\* at most is contained, a key like no stored one is not
CaseInsensitiveContainment ==
    x_pc = "checked" => x_got = [kind |-> "bool", value |-> KeysLike(x_query) # <<>>]

\* C16: normalized attribute lookup and case-insensitive containment of the
\* extension property map, for every stored key and every name asked
XPropsNormalized == NormalizedLookup /\ CaseInsensitiveContainment
(***************************************************************************)
(* caldav_tasks_api.py: one TasksAPI session, its caller and its server    *)
(***************************************************************************)

\* the add_task, update_task and delete_task calls of one behaviour
MaxOps == 2

\* the calls of one behaviour that the server answers otherwise than by
\* doing plainly what it is asked
MaxFaults == 1

\* the field assignments the caller makes to its records in one behaviour
MaxEdits == 1

NOW_3 == <<"2","0","2","5","0","1","0","4","T","0","0","0","0","0","0","Z">>
SERVER_TEXT == <<"z">>

\* the clock and uuid4() during the session
CallerNow == NOW_2
ApiNow == NOW_3
ApiUuid0 == UUID_B
ApiUuid1 == UUID_A

\* the records the caller builds: a new task for the first list, a sub-task
\* of the stored task without a list, and a record for the stored task itself,
\* marked completed
NewTasks ==
    { TaskData(U_1, L_1, <<"a">>, UUID_A, CallerNow),
      [TaskData(<<>>, <<>>, <<"c">>, UUID_A, CallerNow) EXCEPT !.parent = U_P],
      [TaskData(U_P, L_1, <<"b">>, UUID_A, CallerNow) EXCEPT
          !.completed = TRUE, !.percent_complete = 50] }

\* TaskData.from_ical as the session calls it
Decode(lines, list_uid) == FromLines(lines, list_uid, ApiUuid0, ApiUuid1, ApiNow)

\* _fetch_raw_calendars: the server's calendars, or none when the listing raises
FetchRawCalendars(ok) == IF ok THEN ServerLists ELSE <<>>

\* `if not self.raw_calendars: self._fetch_raw_calendars()`
CalendarsFor(cached, fetch_ok) ==
    IF cached = <<>> THEN FetchRawCalendars(fetch_ok) ELSE cached

\* the calls to the collaborator that CalendarsFor makes
FetchCalls(cached) == IF cached = <<>> THEN 1 ELSE 0

\* the loop `for cal in self.raw_calendars: if str(cal.id) == list_uid`
HasCalendar(cals, list_uid) == \E i \in 1..Len(cals) : cals[i] = list_uid

\* a call that also appends the caller's object to the first loaded list when
\* it is not one of the loaded
WithPickedAppended(lists, at, t) ==
    IF at = <<>>
    THEN (IF lists = <<>> THEN lists
          ELSE [lists EXCEPT ![1].tasks = Append(@, t)])
    ELSE [lists EXCEPT ![at[1]].tasks[at[2]] = t]

\* the loaded set after the caller's object became t: a picked object is the
\* one in task_lists
WithPicked(lists, at, t) ==
    IF at = <<>> THEN lists
    ELSE [lists EXCEPT ![at[1]].tasks[at[2]] = t]

\* the server answers n more calls otherwise than plainly
Charge(n) == faults' = faults + n /\ faults + n <= MaxFaults

\* a calendar listing that raises during a call: the cache is empty only after
\* the listing raised before, which was counted then
FetchFault(cached, fetch_ok) == 0

\* Calendar.todo_by_uid: the position of the item, 0 for NotFoundError
TodoByUid(items, uid) ==
    IF \E i \in 1..Len(items) : items[i].uid = uid
    THEN CHOOSE i \in 1..Len(items) :
            /\ items[i].uid = uid
            /\ \A j \in 1..(i - 1) : items[j].uid # uid
    ELSE 0

\* Calendar.add_todo / Todo.save on the server: the item is written under its
\* UID, in place of an item that has it already
PutItem(items, uid, data) ==
    IF TodoByUid(items, uid) # 0
    THEN [items EXCEPT ![TodoByUid(items, uid)] = [uid |-> uid, data |-> data]]
    ELSE Append(items, [uid |-> uid, data |-> data])

\* Todo.delete on the server
RemoveItem(items, i) ==
    [k \in 1..(Len(items) - 1) |-> IF k < i THEN items[k] ELSE items[k + 1]]

\* a text without the lines of one property
WithoutLine(ical, name) ==
    Join(SelectSeq(SplitLines(ical),
                   LAMBDA l : ~StartsWith(l, name \o <<":">>)), <<LF>>) \o <<LF>>

\* the list id of the record taken before the one of the argument
EffectiveListUidRecordFirst(list_uid, t, env) ==
    IF t.list_uid # <<>> THEN t.list_uid
    ELSE IF list_uid # <<>> THEN list_uid
    ELSE env

\* add_task: the list id of the argument, else of the record, else of the
\* environment variable CALDAV_TASKS_API_DEFAULT_LIST_UID
EffectiveListUid(list_uid, t, env) ==
    IF list_uid # <<>> THEN list_uid
    ELSE IF t.list_uid # <<>> THEN t.list_uid
    ELSE env

\* what the server does with a new item: raise; store and report it as sent;
\* store it with a UID, a summary and a modification time of its own; store
\* it and report no data, or neither data nor an id.  The lookup of the
\* verification step works, raises, or gives a body from_ical cannot decode;
\* or it works and the save that corrects the summary raises.
AddPlain == [add |-> "echo", verify |-> "lookup"]

AddBehaviours ==
    { [add |-> "raise", verify |-> "none"],
      AddPlain,
      [add |-> "rewrite", verify |-> "lookup"],
      [add |-> "nodata", verify |-> "lookup"],
      [add |-> "noid", verify |-> "raise"],
      [add |-> "echo", verify |-> "raise"],
      [add |-> "echo", verify |-> "undecodable"],
      [add |-> "rewrite", verify |-> "save raises"] }

\* the record the server stores for a sent record
StoredRecord(t, how) ==
    IF how = "rewrite"
    THEN [t EXCEPT !.uid = U_S, !.text = SERVER_TEXT, !.changed_at = NOW_S]
    ELSE t

\* new_todo_obj.data
ReportedData(stored, how) ==
    IF how \in {"nodata", "noid"} THEN <<>> ELSE ToIcal(stored)

\* new_todo_obj.id
ReportedId(stored, how) == IF how = "noid" THEN <<>> ELSE stored.uid

\* add_task: only the uid is copied back from the decoded record
AddCopyBackUidOnly(t, updated) ==
    [t EXCEPT !.uid = updated.uid, !.synced = TRUE]

\* add_task: the values copied back from the decoded server data
AddCopyBack(t, updated) ==
    [t EXCEPT !.uid = updated.uid, !.changed_at = updated.changed_at,
              !.synced = TRUE]

\* add_task: the record when the server reports no data
AddNoData(t, id) ==
    [t EXCEPT !.uid = IF id # <<>> THEN id ELSE @, !.synced = TRUE]

\* add_task's handler that re-raises without touching the record
AddFailedKeepsSynced(t) == t

\* add_task, `except Exception`: the record is marked not synced, and the
\* error is raised again
AddFailed(t) == [t EXCEPT !.synced = FALSE]

\* a verification whose failure marks the record not synced
AddVerifiedStrictly(t, verify) ==
    [t EXCEPT !.api_ref = TRUE, !.synced = (verify = "lookup")]

\* add_task after the verification step, however it went: the record gets
\* its reference to the session and is returned
AddVerified(t, verify) == [t EXCEPT !.api_ref = TRUE]

\* a read_only check that lets delete_task through
ReadOnlyDeniesWrites(ro, op) == ro /\ op # "delete"

\* the read_only check that opens add_task, update_task and delete_task
ReadOnlyDenies(ro, op) == ro

\* add_task from `desired_text = task_data.text` on: the record is encoded
\* and sent, the server's answer is decoded and copied back, and the stored
\* text is verified
AddToCalendar(t1, effective, b, n0, args) ==
    \E desired_text \in {t1.text}, t2 \in {ToIcalSelf(t1)} :
    \E stored \in {StoredRecord(t2, b.add)} :
    \E data \in {ReportedData(stored, b.add)}, id \in {ReportedId(stored, b.add)},
       items1 \in {PutItem(store[effective], stored.uid, ToIcal(stored))} :
        IF b.add = "raise"
        THEN /\ task' = AddFailed(t2)
             /\ store' = store
             /\ last' = [op |-> "add", outcome |-> "Error", calls |-> n0 + 1,
                         how |-> b.add, verify |-> b.verify,
                         copied_back |-> FALSE, was_synced |-> t1.synced, args |-> args]
        ELSE \E lines \in {IF data # <<>> THEN IcalLines(data) ELSE <<>>} :
             IF data # <<>> /\ LinesRaise(lines)
             THEN /\ task' = AddFailed(t2)
                  /\ store' = [store EXCEPT ![effective] = items1]
                  /\ last' = [op |-> "add", outcome |-> "Error",
                              calls |-> n0 + 1,
                              how |-> b.add, verify |-> b.verify,
                              copied_back |-> FALSE, was_synced |-> t1.synced, args |-> args]
             ELSE \E updated \in {IF data # <<>> THEN Decode(lines, effective)
                                  ELSE NoTask} :
                  \E t4 \in {[(IF data # <<>> THEN AddCopyBack(t2, updated)
                               ELSE AddNoData(t2, id))
                                 EXCEPT !.text = desired_text]} :
                  \E at \in {IF b.verify \in {"lookup", "save raises"}
                             THEN TodoByUid(items1, t4.uid) ELSE 0} :
                  \E fresh \in {IF at = 0 THEN NoTask
                                ELSE IF items1[at].data = data THEN updated
                                ELSE Decode(IcalLines(items1[at].data), effective)} :
                  \E fix \in {at # 0 /\ fresh.text # desired_text} :
                  \E items2 \in
                        {IF fix /\ b.verify = "lookup"
                         THEN [items1 EXCEPT ![at].data =
                                 ToIcal([fresh EXCEPT !.text = desired_text])]
                         ELSE items1} :
                      /\ task' = AddVerified(t4, b.verify)
                      /\ store' = [store EXCEPT ![effective] = items2]
                      /\ last' = [op |-> "add", outcome |-> "returned",
                                  calls |-> n0 + 2 + (IF fix THEN 1 ELSE 0),
                                  list_uid |-> effective,
                                  desired_text |-> desired_text,
                                  how |-> b.add,
                                  verify |-> b.verify,
                                  copied_back |-> TRUE,
                                  copied |-> t4,
                                  fix |-> fix,
                                  was_synced |-> t1.synced, args |-> args,
                                  returned_uid |-> t4.uid,
                                  data |-> data,
                                  reported_uid |->
                                      IF data # <<>> THEN stored.uid ELSE id,
                                  reported_changed_at |->
                                      IF data # <<>> THEN stored.changed_at
                                      ELSE <<>>,
                                  count_before |-> Len(store[effective]),
                                  was_unused |->
                                      TodoByUid(store[effective], stored.uid) = 0]

\* TasksAPI.add_task(task, list_uid)
AddTask(list_uid, env, b, fetch_ok) ==
    /\ task # NoTask
    /\ ops < MaxOps
    /\ ops' = ops + 1
    /\ UNCHANGED <<codecVars, read_only, edits, picked>>
    /\ IF ReadOnlyDenies(read_only, "add")
       THEN /\ last' = [op |-> "add", outcome |-> "PermissionError", calls |-> 0]
            /\ b = AddPlain /\ fetch_ok
            /\ UNCHANGED <<raw_calendars, store, task, faults>>
       ELSE LET effective == EffectiveListUid(list_uid, task, env)
                args == [list_uid |-> list_uid, task_list_uid |-> task.list_uid,
                         env |-> env]
            IN  IF effective = <<>>
                THEN /\ last' = [op |-> "add", outcome |-> "ValueError",
                                 calls |-> 0, args |-> args]
                     /\ b = AddPlain /\ fetch_ok
                     /\ UNCHANGED <<raw_calendars, store, task, faults>>
                ELSE LET t1 == [task EXCEPT !.list_uid = effective]
                         cals == CalendarsFor(raw_calendars, fetch_ok)
                         n0 == FetchCalls(raw_calendars)
                         nf == FetchFault(raw_calendars, fetch_ok)
                     IN  /\ raw_calendars' = cals
                         /\ IF ~HasCalendar(cals, effective)
                            THEN /\ task' = t1
                                 /\ b = AddPlain /\ Charge(nf)
                                 /\ store' = store
                                 /\ last' = [op |-> "add",
                                             outcome |-> "ValueError",
                                             calls |-> n0, args |-> args]
                            ELSE /\ Charge(nf + (IF b = AddPlain THEN 0 ELSE 1))
                                 /\ AddToCalendar(t1, effective, b, n0, args)
    /\ task_lists' = WithPicked(task_lists, picked, task')

\* what the server does when delete_task looks the item up and deletes it
DeleteBehaviours == {"ok", "lookup raises", "delete raises"}

\* TasksAPI.delete_task(task_uid, list_uid)
DeleteTask(task_uid, list_uid, b, fetch_ok) ==
    /\ ops < MaxOps
    /\ ops' = ops + 1
    /\ UNCHANGED <<codecVars, read_only, edits, task_lists, task, picked>>
    /\ IF ReadOnlyDenies(read_only, "delete")
       THEN /\ last' = [op |-> "delete", outcome |-> "PermissionError",
                        calls |-> 0]
            /\ b = "ok" /\ fetch_ok
            /\ UNCHANGED <<raw_calendars, store, faults>>
       ELSE LET cals == CalendarsFor(raw_calendars, fetch_ok)
                n0 == FetchCalls(raw_calendars)
                nf == FetchFault(raw_calendars, fetch_ok)
                seen == [listing |-> IF raw_calendars # <<>> THEN "cached"
                                     ELSE IF fetch_ok THEN "ok" ELSE "raised",
                         has_calendar |-> HasCalendar(cals, list_uid),
                         b |-> b,
                         found |-> HasCalendar(cals, list_uid)
                                   /\ TodoByUid(store[list_uid], task_uid) # 0]
            IN  /\ raw_calendars' = cals
                /\ Charge(nf + (IF b = "ok" THEN 0 ELSE 1))
                /\ IF ~HasCalendar(cals, list_uid)
                   THEN /\ store' = store
                        /\ b = "ok"
                        /\ last' = [op |-> "delete", outcome |-> "ValueError",
                                    calls |-> n0, seen |-> seen]
                   ELSE LET at == TodoByUid(store[list_uid], task_uid)
                        IN  IF b = "lookup raises"
                            THEN /\ store' = store
                                 /\ last' = [op |-> "delete",
                                             outcome |-> "Error",
                                             calls |-> n0 + 1, seen |-> seen]
                            ELSE IF at = 0
                            THEN /\ store' = store
                                 /\ b = "ok"
                                 /\ last' = [op |-> "delete",
                                             outcome |-> "ValueError",
                                             calls |-> n0 + 1, seen |-> seen]
                            ELSE IF b = "delete raises"
                            THEN /\ store' = store
                                 /\ last' = [op |-> "delete",
                                             outcome |-> "Error",
                                             calls |-> n0 + 2, seen |-> seen]
                            ELSE /\ store' = [store EXCEPT ![list_uid] =
                                                RemoveItem(@, at)]
                                 /\ last' = [op |-> "delete",
                                             outcome |-> "returned",
                                             calls |-> n0 + 2, seen |-> seen,
                                             task_uid |-> task_uid,
                                             list_uid |-> list_uid,
                                             count_before |->
                                                 Len(store[list_uid]),
                                             copies |->
                                                 Cardinality(
                                                   {l \in DOMAIN store :
                                                      TodoByUid(store[l], task_uid) # 0})]

RECURSIVE XMerge(_, _)
\* `for key, value in task_data.x_properties.items():
\*      update_ical_property(key, value)` on the item's properties
XMerge(xp, xs) ==
    IF xs = <<>> THEN xp
    ELSE XMerge(IF xs[1].value # <<>>
                THEN XSetItem(xp, xs[1].key, xs[1].value)
                ELSE SelectSeq(xp, LAMBDA e : e.key # xs[1].key),
                Tail(xs))

\* update_task, tier 1: the properties written onto the item found on the
\* server (a false value removes the property); UID, DTSTAMP, STATUS and
\* RRULE are not touched
ApplyProperties(item, t) ==
    [item EXCEPT !.text = t.text,
                 !.changed_at = t.changed_at,
                 !.percent_complete = t.percent_complete,
                 !.notes = t.notes,
                 !.due_date = t.due_date,
                 !.start_date = t.start_date,
                 !.priority = IF t.priority > 0 THEN t.priority ELSE 0,
                 !.parent = t.parent,
                 !.tags = t.tags,
                 !.x_properties = XMerge(@, t.x_properties)]

\* update_task, tier 1: server_task_obj.complete() / uncomplete()
SetStatus(item, t) == [item EXCEPT !.completed = t.completed]

\* one way the update ladder can go: which calls succeed, and whether the
\* item has a set_summary method
Ladder(t1_save, t1_complete, t2_save, t3_update, has_set_summary, t4_set) ==
    [t1_save |-> t1_save, t1_complete |-> t1_complete, t2_save |-> t2_save,
     t3_update |-> t3_update, has_set_summary |-> has_set_summary,
     t4_set |-> t4_set]

LadderAllOk == Ladder(TRUE, TRUE, TRUE, TRUE, TRUE, TRUE)
LadderSaveRaises == Ladder(FALSE, TRUE, TRUE, TRUE, TRUE, TRUE)
LadderCompleteRaises == Ladder(TRUE, FALSE, TRUE, TRUE, TRUE, TRUE)
LadderOnlyUpdateProperties == Ladder(FALSE, TRUE, FALSE, TRUE, TRUE, TRUE)
LadderOnlySetSummary == Ladder(FALSE, TRUE, FALSE, FALSE, TRUE, TRUE)
LadderAllRaise == Ladder(FALSE, TRUE, FALSE, FALSE, TRUE, FALSE)
LadderAllRaiseNoSetSummary == Ladder(FALSE, TRUE, FALSE, FALSE, FALSE, FALSE)

\* what the server does during update_task: the lookup, the ladder, and the
\* data the item holds afterwards ("data": as written, "rewrite": with a
\* summary and a UID of the server's own, "nouid": without a UID line,
\* "emptyuid": with a UID line that has no value, "empty": none)
UpdatePlain == [find |-> "ok", ladder |-> LadderAllOk, post |-> "data"]

UpdateBehaviours ==
    { [find |-> "raise", ladder |-> LadderAllOk, post |-> "data"] }
    \cup { [find |-> "ok", ladder |-> LadderAllOk, post |-> p] :
             p \in {"data", "rewrite", "nouid", "emptyuid", "empty"} }
    \cup { [find |-> "ok", ladder |-> l, post |-> "data"] :
             l \in {LadderSaveRaises, LadderCompleteRaises,
                    LadderOnlyUpdateProperties, LadderOnlySetSummary,
                    LadderAllRaise, LadderAllRaiseNoSetSummary} }

\* the tier whose write went through last: 1 to 4, 0 when none did
TierDone(l) ==
    IF l.t1_save /\ l.t1_complete THEN 1
    ELSE IF l.t2_save THEN 2
    ELSE IF l.t3_update THEN 3
    ELSE IF l.has_set_summary /\ l.t4_set THEN 4
    ELSE 0

\* the collaborator calls of the ladder
LadderCalls(l) ==
    1 + (IF l.t1_save THEN 1 ELSE 0)
    + (IF l.t1_save /\ l.t1_complete THEN 0
       ELSE 1 + (IF l.t2_save THEN 0
                 ELSE 1 + (IF l.t3_update \/ ~l.has_set_summary THEN 0 ELSE 1)))

\* an attempt of the ladder: the tier, and whether it ended without raising
Attempt(tier, ok) == [tier |-> tier, ok |-> ok]

\* a ladder that goes on to update_properties whatever the full-body
\* replacement did
AttemptsRegardless(l) ==
    <<Attempt(1, l.t1_save /\ l.t1_complete)>>
    \o (IF l.t1_save /\ l.t1_complete THEN <<>>
        ELSE <<Attempt(2, l.t2_save), Attempt(3, l.t3_update)>>
             \o (IF ~l.t3_update /\ l.has_set_summary
                 THEN <<Attempt(4, l.t4_set)>> ELSE <<>>))

\* update_task: the attempts of one call in the order the code makes them:
\* the direct property update, then under `except Exception as e_direct` the
\* full data replacement, `if not success` update_properties, and
\* `if not success and hasattr(..., "set_summary")` set_summary
Attempts(l) ==
    <<Attempt(1, l.t1_save /\ l.t1_complete)>>
    \o (IF l.t1_save /\ l.t1_complete THEN <<>>
        ELSE <<Attempt(2, l.t2_save)>>
             \o (IF l.t2_save THEN <<>>
                 ELSE <<Attempt(3, l.t3_update)>>
                      \o (IF ~l.t3_update /\ l.has_set_summary
                          THEN <<Attempt(4, l.t4_set)>> ELSE <<>>)))

\* the tiers of one call whose write reached the store: tier 1 when its
\* save() returned (also when complete() or uncomplete() raised after it),
\* a later tier when it ended without raising
TiersWritten(l) ==
    (IF l.t1_save THEN {1} ELSE {})
    \cup {Attempts(l)[i].tier : i \in {k \in 2..Len(Attempts(l)) : Attempts(l)[k].ok}}

\* server_task_obj.data after the ladder, for the item's fields after it
PostData(item, post) ==
    IF post = "empty" THEN <<>>
    ELSE IF post = "rewrite"
         THEN ToIcal([item EXCEPT !.text = SERVER_TEXT, !.uid = U_S])
    ELSE IF post = "nouid" THEN WithoutLine(ToIcal(item), S_UID)
    ELSE IF post = "emptyuid" THEN ToIcal([item EXCEPT !.uid = <<>>])
    ELSE ToIcal(item)

\* update_task: the copy-back without the rrule
CopyBackNoRrule(t, r, desired_text) ==
    [t EXCEPT !.uid = r.uid, !.text = desired_text, !.notes = r.notes,
              !.created_at = r.created_at, !.changed_at = r.changed_at,
              !.completed = r.completed,
              !.percent_complete = r.percent_complete,
              !.due_date = r.due_date, !.start_date = r.start_date,
              !.priority = r.priority, !.parent = r.parent, !.tags = r.tags,
              !.x_properties = r.x_properties, !.synced = TRUE]

\* update_task: the fields copied back from the decoded server data
CopyBack(t, r, desired_text) ==
    [t EXCEPT !.uid = r.uid, !.text = desired_text, !.notes = r.notes,
              !.created_at = r.created_at, !.changed_at = r.changed_at,
              !.completed = r.completed,
              !.percent_complete = r.percent_complete,
              !.due_date = r.due_date, !.start_date = r.start_date,
              !.priority = r.priority, !.parent = r.parent, !.tags = r.tags,
              !.rrule = r.rrule, !.x_properties = r.x_properties,
              !.synced = TRUE]

\* update_task: changed_at is set to the current time, and percent_complete
\* to 100 when the record is completed
Stamped(t, now) ==
    [t EXCEPT !.changed_at = now,
              !.percent_complete = IF t.completed /\ @ < 100 THEN 100 ELSE @]

\* update_task checking only the uid
MissingIdsUidOnly(t) == t.uid = <<>>

\* update_task: `if not task_data.uid` / `if not task_data.list_uid`
MissingIds(t) == t.uid = <<>> \/ t.list_uid = <<>>

\* a failed update that leaves the synced flag alone
UpdateFailedKeepsSynced(t) == t

\* update_task: `task_data.synced = False` before it raises
UpdateFailed(t) == [t EXCEPT !.synced = FALSE]

\* update_task from `server_task_obj = todo_by_uid(task_data.uid)` on
UpdateOnCalendar(t1, b, n0, pre) ==
    LET list_uid == t1.list_uid
        at == TodoByUid(store[list_uid], t1.uid)
        desired_text == t1.text
        l == b.ladder
        tier == TierDone(l)
        failed(outcome, n) ==
            /\ task' = UpdateFailed(t1)
            /\ store' = store
            /\ last' = [op |-> "update", outcome |-> outcome, calls |-> n,
                        found |-> FALSE, pre |-> pre, tier |-> 0,
                        find |-> b.find]
    IN  IF b.find = "raise" THEN failed("Error", n0 + 1)
        ELSE IF at = 0 THEN b = UpdatePlain /\ failed("ValueError", n0 + 1)
        ELSE \E old \in {IF l.t1_save
                         THEN Decode(IcalLines(store[list_uid][at].data), list_uid)
                         ELSE NoTask} :
             \E item1 \in {IF l.t1_save THEN ApplyProperties(old, t1)
                           ELSE NoTask} :
             \E item \in {IF tier = 1 THEN SetStatus(item1, t1) ELSE t1} :
             \E data \in {PostData(item, b.post)} :
             \E written \in {IF tier # 0
                             THEN (IF data # <<>> THEN data ELSE ToIcal(item))
                             ELSE IF l.t1_save THEN ToIcal(item1)
                             ELSE store[list_uid][at].data},
                n \in {n0 + 1 + LadderCalls(l)} :
                 \E lines \in {IF data # <<>> THEN IcalLines(data) ELSE <<>>} :
                 /\ store' = [store EXCEPT ![list_uid][at].data = written]
                 /\ IF data # <<>> /\ LinesRaise(lines)
                    THEN /\ task' = UpdateFailed(t1)
                         /\ last' = [op |-> "update", outcome |-> "Error",
                                     calls |-> n, found |-> TRUE, pre |-> pre,
                                     tier |-> tier, attempts |-> Attempts(l),
                                     written |-> TiersWritten(l)]
                    ELSE \E refreshed \in {IF data # <<>>
                                           THEN Decode(lines, list_uid)
                                           ELSE NoTask} :
                         /\ task' = [(IF data # <<>>
                                      THEN CopyBack(t1, refreshed, desired_text)
                                      ELSE [t1 EXCEPT !.synced = TRUE])
                                     EXCEPT !.api_ref = TRUE]
                         /\ last' = [op |-> "update", outcome |-> "returned",
                                     calls |-> n, found |-> TRUE, pre |-> pre,
                                     tier |-> tier, ladder |-> l,
                                     attempts |-> Attempts(l),
                                     written |-> TiersWritten(l),
                                     post |-> b.post,
                                     desired_text |-> desired_text,
                                     data |-> data, refreshed |-> refreshed]

\* TasksAPI.update_task(task)
UpdateTask(b, fetch_ok) ==
    /\ task # NoTask
    /\ ops < MaxOps
    /\ ops' = ops + 1
    /\ UNCHANGED <<codecVars, read_only, edits, picked>>
    /\ IF ReadOnlyDenies(read_only, "update")
       THEN /\ last' = [op |-> "update", outcome |-> "PermissionError",
                        calls |-> 0, found |-> FALSE, pre |-> task,
                        tier |-> 0]
            /\ b = UpdatePlain /\ fetch_ok
            /\ UNCHANGED <<raw_calendars, store, task, faults>>
       ELSE IF MissingIds(task)
       THEN /\ last' = [op |-> "update", outcome |-> "ValueError",
                        calls |-> 0, found |-> FALSE, pre |-> task,
                        tier |-> 0]
            /\ b = UpdatePlain /\ fetch_ok
            /\ UNCHANGED <<raw_calendars, store, task, faults>>
       ELSE LET t1 == Stamped(task, ApiNow)
                cals == CalendarsFor(raw_calendars, fetch_ok)
                n0 == FetchCalls(raw_calendars)
                nf == FetchFault(raw_calendars, fetch_ok)
            IN  /\ raw_calendars' = cals
                /\ IF ~HasCalendar(cals, task.list_uid)
                   THEN /\ task' = UpdateFailed(t1)
                        /\ b = UpdatePlain /\ Charge(nf)
                        /\ store' = store
                        /\ last' = [op |-> "update", outcome |-> "ValueError",
                                    calls |-> n0, found |-> FALSE,
                                    pre |-> task, tier |-> 0]
                   ELSE /\ Charge(nf + (IF b = UpdatePlain THEN 0 ELSE 1))
                        /\ UpdateOnCalendar(t1, b, n0, task)
    /\ task_lists' = WithPicked(task_lists, picked, task')

\* a load that stops after the first item of a calendar
DecodeFirstItem(items, list_uid) ==
    IF items = <<>> THEN <<>>
    ELSE << [Decode(IcalLines(items[1].data), list_uid)
               EXCEPT !.synced = TRUE, !.api_ref = TRUE] >>

RECURSIVE DecodeItems(_, _)
\* load_remote_data: the records decoded from the items of one calendar; an
\* item whose decoding raises is skipped
DecodeItems(items, list_uid) ==
    IF items = <<>> THEN <<>>
    ELSE LET lines == IcalLines(items[1].data)
         IN  (IF LinesRaise(lines) THEN <<>>
              ELSE << [Decode(lines, list_uid) EXCEPT !.synced = TRUE,
                                                     !.api_ref = TRUE] >>)
             \o DecodeItems(Tail(items), list_uid)

\* what the server does during load_remote_data: whether the calendar listing
\* works, and the calendars whose todos() raises and that have no data to
\* fall back to
LoadPlain == [fetch_ok |-> TRUE, todos_fail |-> {}]

LoadBehaviours ==
    { LoadPlain,
      [fetch_ok |-> TRUE, todos_fail |-> {L_1}],
      [fetch_ok |-> FALSE, todos_fail |-> {}] }

\* TasksAPI.load_remote_data()
LoadRemoteData(b) ==
    /\ last.op \notin {"load", "graph"}
    /\ last.op # "none" \/ task = NoTask
    /\ b = LoadPlain \/ last.op = "none"
    /\ Charge(IF b = LoadPlain THEN 0 ELSE 1)
    /\ raw_calendars' = FetchRawCalendars(b.fetch_ok)
    /\ task_lists' =
         [i \in 1..Len(raw_calendars') |->
            [uid |-> raw_calendars'[i],
             tasks |-> IF raw_calendars'[i] \in b.todos_fail THEN <<>>
                       ELSE DecodeItems(store[raw_calendars'[i]],
                                        raw_calendars'[i])]]
    /\ last' = [op |-> "load", outcome |-> "returned",
                complete |-> b.fetch_ok /\ b.todos_fail = {},
                prev |-> last]
    /\ picked' = <<>>
    /\ UNCHANGED <<codecVars, read_only, edits, store, task, ops>>

RECURSIVE TasksFrom(_, _)
\* the tasks of the lists from position i on, in the order of the loops
\* `for task_list in self.task_lists: for task in task_list.tasks`
TasksFrom(lists, i) ==
    IF i > Len(lists) THEN <<>>
    ELSE lists[i].tasks \o TasksFrom(lists, i + 1)

LoadedTasks == TasksFrom(task_lists, 1)

\* TasksAPI.get_task_list_by_uid(list_uid).tasks, <<>> when there is no such list
TasksOfList(list_uid) ==
    LET found == SelectSeq(task_lists, LAMBDA tl : tl.uid = list_uid)
    IN  IF found = <<>> THEN <<>> ELSE found[1].tasks

\* TasksAPI.get_task_by_global_uid(task_uid)
GetTaskByGlobalUid(task_uid) ==
    LET found == SelectSeq(LoadedTasks, LAMBDA t : t.uid = task_uid)
    IN  IF found = <<>> THEN NoTask ELSE found[1]

\* TaskData.parent_task
ParentTask(t) ==
    IF t.parent # <<>> /\ t.api_ref THEN GetTaskByGlobalUid(t.parent)
    ELSE NoTask

\* child_tasks looking only into the list of the task itself
ChildTasksOwnList(t) ==
    IF t.api_ref /\ t.uid # <<>>
    THEN SelectSeq(TasksOfList(t.list_uid), LAMBDA c : c.parent = t.uid)
    ELSE <<>>

\* TaskData.child_tasks
ChildTasks(t) ==
    IF t.api_ref /\ t.uid # <<>>
    THEN SelectSeq(LoadedTasks, LAMBDA c : c.parent = t.uid)
    ELSE <<>>

\* the caller builds a record
NewTask ==
    /\ ops < MaxOps
    /\ last.op # "graph"
    /\ task = NoTask
    /\ task' \in NewTasks
    /\ picked' = <<>>
    /\ last' = NoCall
    /\ UNCHANGED <<codecVars, read_only, edits, raw_calendars, task_lists, store, ops,
                   faults>>

\* what the caller assigns to a field of its record: another summary,
\* another recurrence rule, a parent uid, or an empty uid
Edited(t, field) ==
    IF field = "text" THEN [t EXCEPT !.text = <<"e">>]
    ELSE IF field = "rrule" THEN [t EXCEPT !.rrule = S_FREQ_WEEKLY]
    ELSE IF field = "parent" THEN [t EXCEPT !.parent = UUID_A]
    ELSE [t EXCEPT !.uid = <<>>]

\* the caller has emptied the uid of its record, which no constructor and no
\* decoding does
UidCleared == \E i \in 1..Len(edits) : edits[i] = "uid"

\* the caller assigns to a field of its record
EditTask ==
    /\ ops < MaxOps
    /\ last.op # "graph"
    /\ Len(edits) < MaxEdits
    /\ task # NoTask
    /\ \E field \in {"text", "rrule", "parent", "uid"} :
         /\ Edited(task, field) # task
         /\ task' = Edited(task, field)
         /\ edits' = Append(edits, field)
    /\ task_lists' = WithPicked(task_lists, picked, task')
    /\ last' = NoCall
    /\ UNCHANGED <<codecVars, read_only, raw_calendars, store, picked, ops,
                   faults>>

\* the caller takes one of the loaded records
PickLoaded ==
    /\ ops < MaxOps
    /\ last.op = "load"
    /\ \E i \in 1..Len(task_lists) : \E j \in 1..Len(task_lists[i].tasks) :
         /\ task' = task_lists[i].tasks[j]
         /\ picked' = <<i, j>>
    /\ last' = NoCall
    /\ UNCHANGED <<codecVars, read_only, edits, raw_calendars, task_lists, store, ops,
                   faults>>

\* the position of the first loaded task with the uid, 0 when there is none
FirstLoaded(task_uid) ==
    IF \E i \in 1..Len(LoadedTasks) : LoadedTasks[i].uid = task_uid
    THEN CHOOSE i \in 1..Len(LoadedTasks) :
            /\ LoadedTasks[i].uid = task_uid
            /\ \A j \in 1..(i - 1) : LoadedTasks[j].uid # task_uid
    ELSE 0

\* the loaded records get_task_by_global_uid(task_uid) looks at: up to the
\* first with the uid, all of them when there is none
LookupScanned(task_uid) ==
    IF FirstLoaded(task_uid) # 0 THEN FirstLoaded(task_uid)
    ELSE Len(LoadedTasks)

RECURSIVE ChainScanned(_, _)
\* the loaded records looked at by a walk from a task up its parent links,
\* given up after fuel lookups
ChainScanned(t, fuel) ==
    IF fuel = 0 \/ t.parent = <<>> THEN 0
    ELSE LookupScanned(t.parent)
         + (IF FirstLoaded(t.parent) = 0 THEN 0
            ELSE ChainScanned(LoadedTasks[FirstLoaded(t.parent)], fuel - 1))

\* a parent_task that goes on from the parent to its ancestors
AncestorsScanned(t) ==
    IF t.parent # <<>> /\ t.api_ref
    THEN ChainScanned(t, Len(LoadedTasks) + 1) ELSE 0

\* TaskData.parent_task: the loaded records it looks at
ParentScanned(t) ==
    IF t.parent # <<>> /\ t.api_ref THEN LookupScanned(t.parent) ELSE 0

\* TaskData.child_tasks: the loaded records it looks at
ChildScanned(t) ==
    IF t.api_ref /\ t.uid # <<>> THEN Len(LoadedTasks) ELSE 0

\* the caller reads task.parent_task and task.child_tasks, as the last thing
\* it does: the reading changes nothing that a later call could depend on
GraphAccess ==
    /\ task # NoTask
    /\ last = NoCall
    /\ last' = [op |-> "graph",
                parent_task |-> ParentTask(task),
                child_tasks |-> ChildTasks(task),
                parent_scanned |-> ParentScanned(task),
                child_scanned |-> ChildScanned(task)]
    /\ UNCHANGED <<codecVars, read_only, edits, raw_calendars, task_lists,
                   store, task, picked, ops, faults>>

\* the arguments the caller gives to delete_task: the ids of its record, or
\* those of the stored task, or a list the server does not have
DeleteArgs ==
    IF task # NoTask /\ task.list_uid # <<>>
    THEN {<<task.uid, task.list_uid>>}
    ELSE {<<U_P, L_1>>, <<U_P, L_9>>}

Init ==
    /\ c_pc = "idle"
    /\ c_orig = NoTask
    /\ c_task = NoTask
    /\ c_ical = <<>>
    /\ c_back = NoTask
    /\ c_ical2 = <<>>
    /\ XIdle
    /\ read_only \in BOOLEAN
    /\ raw_calendars = ServerLists
    /\ task_lists = <<>>
    /\ store = StoreInit
    /\ task = NoTask
    /\ picked = <<>>
    /\ last = NoCall
    /\ ops = 0
    /\ edits = <<>>
    /\ faults = 0

\* whether the calendar listing works matters only when nothing is cached
FetchOutcomes == IF raw_calendars = <<>> THEN BOOLEAN ELSE {TRUE}

AddTaskCall ==
    /\ last.op # "graph"
    /\ \E list_uid \in {<<>>, L_2, L_9}, b \in AddBehaviours, fetch_ok \in FetchOutcomes :
        \E env \in (IF list_uid = <<>> /\ task # NoTask /\ task.list_uid = <<>>
                    THEN {<<>>, L_2} ELSE {<<>>}) :
            AddTask(list_uid, env, b, fetch_ok)

UpdateTaskCall ==
    /\ last.op # "graph"
    /\ \E b \in UpdateBehaviours, fetch_ok \in FetchOutcomes :
          UpdateTask(b, fetch_ok)

DeleteTaskCall ==
    /\ last.op # "graph"
    /\ \E args \in DeleteArgs, b \in DeleteBehaviours, fetch_ok \in FetchOutcomes :
        DeleteTask(args[1], args[2], b, fetch_ok)

LoadRemoteDataCall == \E b \in LoadBehaviours : LoadRemoteData(b)

Next ==
    \/ NewTask
    \/ EditTask
    \/ PickLoaded
    \/ GraphAccess
    \/ AddTaskCall
    \/ UpdateTaskCall
    \/ DeleteTaskCall
    \/ LoadRemoteDataCall

Spec == Init /\ [][Next]_vars

(***************************************************************************)
(* Properties of the session                                               *)
(***************************************************************************)

\* C4: when the item is found and no tier of the update ladder gets a write
\* through, update_task returns without raising and the record's synced flag
\* is what it was before the call
LadderExhaustionKeepsSynced ==
    (last.op = "update" /\ last.found /\ last.tier = 0) =>
        /\ last.outcome = "returned"
        /\ task.synced = last.pre.synced

\* C5: in a read-only session add_task, update_task and delete_task raise
\* PermissionError, whatever their arguments, having made no call to the
\* collaborator
ReadOnlyEnforced ==
    (read_only /\ last.op \in {"add", "update", "delete"}) =>
        /\ last.outcome = "PermissionError"
        /\ last.calls = 0

\* a read-only session has refused to add a record that names no list
ReadOnlyRefused ==
    /\ read_only
    /\ last.op = "add"
    /\ last.outcome = "PermissionError"
    /\ task.list_uid = <<>>
    /\ store = StoreInit

\* C6: when update_task returns and the server item has data, the record has
\* the text the caller gave it, every other content field as decoded from
\* that data, and synced = true
UpdateKeepsText ==
    (last.op = "update" /\ last.outcome = "returned" /\ last.data # <<>>) =>
        /\ task.text = last.pre.text
        /\ task.notes = last.refreshed.notes
        /\ task.created_at = last.refreshed.created_at
        /\ task.changed_at = last.refreshed.changed_at
        /\ task.completed = last.refreshed.completed
        /\ task.percent_complete = last.refreshed.percent_complete
        /\ task.due_date = last.refreshed.due_date
        /\ task.start_date = last.refreshed.start_date
        /\ task.priority = last.refreshed.priority
        /\ task.parent = last.refreshed.parent
        /\ task.tags = last.refreshed.tags
        /\ task.rrule = last.refreshed.rrule
        /\ task.x_properties = last.refreshed.x_properties
        /\ task.synced

\* update_task has returned a record whose text is not the SUMMARY of the
\* server's data, with the recurrence rule only the server had
UpdateKeptText ==
    /\ last.op = "update"
    /\ last.outcome = "returned"
    /\ last.data # <<>>
    /\ last.refreshed.text = SERVER_TEXT
    /\ task.text = <<"b">>
    /\ last.pre.rrule = <<>>
    /\ task.rrule = S_FREQ_DAILY
    /\ last.pre.created_at # task.created_at

\* C7: the record update_task returns has the uid it had when update_task was
\* called, whatever the server does
UidImmutable ==
    (last.op = "update" /\ last.outcome = "returned") =>
        task.uid = last.pre.uid

LoadedUids(list_uid) ==
    {TasksOfList(list_uid)[k].uid : k \in 1..Len(TasksOfList(list_uid))}

\* the store holds every item under the UID its data carries
StoreFaithful ==
    \A l \in DOMAIN store : \A k \in 1..Len(store[l]) :
        UidLineValue(store[l][k].data) = store[l][k].uid

\* the counts and uids a reload shows right after add_task or delete_task
\* returned
ReloadShows(add_needs_unused, delete_needs_single) ==
    (last.op = "load" /\ last.complete /\ last.prev.op \in {"add", "delete"}
       /\ last.prev.outcome = "returned" /\ StoreFaithful /\ ~UidCleared) =>
        IF last.prev.op = "add"
        THEN (add_needs_unused => last.prev.was_unused) =>
               /\ Len(TasksOfList(last.prev.list_uid)) = last.prev.count_before + 1
               /\ last.prev.returned_uid \in LoadedUids(last.prev.list_uid)
        ELSE (delete_needs_single => last.prev.copies = 1) =>
               /\ Len(TasksOfList(last.prev.list_uid)) = last.prev.count_before - 1
               /\ \A i \in 1..Len(LoadedTasks) :
                     LoadedTasks[i].uid # last.prev.task_uid

\* C9: with a store that holds every item under its own UID and a record
\* whose uid the caller did not empty, a reload right
\* after add_task returned for a UID the target list did not hold shows one
\* more task in that list, one of them with the returned uid; a reload right
\* after delete_task returned for a UID that one list held shows one task less
\* in that list and the uid in no list
CreateDeleteVisible == ReloadShows(TRUE, TRUE)

\* C9 as stated, for every record and every uid: a reload after add_task
\* returned shows one more task in the target list, and a reload after
\* delete_task returned shows the uid in no list
CreateDeleteVisibleAlways == ReloadShows(FALSE, FALSE)

\* a reload after the task added in this session was deleted again: the list
\* is back to the one task it had
DeletedAfterCreate ==
    /\ last.op = "load"
    /\ last.complete
    /\ last.prev.op = "delete"
    /\ last.prev.outcome = "returned"
    /\ last.prev.task_uid = U_1
    /\ last.prev.copies = 1
    /\ last.prev.count_before = 2
    /\ Len(TasksOfList(L_1)) = 1

\* C10: among loaded tasks, none of which had its uid emptied by the caller,
\* for A and B with B.parent = A.uid, parent_task of B has
\* A's uid and child_tasks of A has a task with B's uid; child_tasks of A is
\* exactly the loaded tasks whose parent is A.uid
ParentChildSymmetry ==
    ~UidCleared => \A i \in 1..Len(LoadedTasks) :
        LET A == LoadedTasks[i]
            children == SelectSeq(LoadedTasks, LAMBDA t : t.parent = A.uid)
        IN  /\ ChildTasks(A) = children
            /\ \A j \in 1..Len(LoadedTasks) :
                 LET B == LoadedTasks[j]
                 IN  B.parent = A.uid =>
                       /\ ParentTask(B) # NoTask
                       /\ ParentTask(B).uid = A.uid
                       /\ \E k \in 1..Len(ChildTasks(A)) :
                             ChildTasks(A)[k].uid = B.uid

\* a loaded task in the second list has its parent in the first
ChildInOtherList ==
    \E i \in 1..Len(LoadedTasks), j \in 1..Len(LoadedTasks) :
        /\ LoadedTasks[j].parent = LoadedTasks[i].uid
        /\ LoadedTasks[i].list_uid = L_1
        /\ LoadedTasks[j].list_uid = L_2


\* C13: unless the caller itself emptied it, every record of the session has
\* a uid: the one the caller built, the
\* one add_task or update_task gave back whatever the server reported, and
\* each one decoded from the server's items or from a text
UidNeverEmpty ==
    /\ (task # NoTask /\ ~UidCleared) => task.uid # <<>>
    /\ ~UidCleared => \A i \in 1..Len(LoadedTasks) : LoadedTasks[i].uid # <<>>
    /\ c_back # NoTask => c_back.uid # <<>>

\* update_task has returned after the server gave the item back with a UID
\* line that has no value, and the record has a uid from uuid4
UpdatedFromEmptyUidLine ==
    /\ last.op = "update"
    /\ last.outcome = "returned"
    /\ UidLineValue(last.data) = <<>>
    /\ Contains(last.data, <<LF>> \o S_UID \o <<":", LF>>)
    /\ task.uid = ApiUuid1

\* C17: when the server's add_todo raises, add_task raises and the record is
\* not synced afterwards
AddFailsClosed ==
    (last.op = "add" /\ last.outcome \in {"returned", "Error"}
       /\ last.how = "raise") =>
        /\ last.outcome = "Error"
        /\ ~task.synced

\* add_todo has raised for a loaded record, which was synced
AddRaisedForSyncedRecord ==
    /\ last.op = "add"
    /\ last.outcome = "Error"
    /\ last.how = "raise"
    /\ last.was_synced
    /\ picked # <<>>
    /\ store = StoreInit

\* C18: when the new item was accepted and its data copied back, a
\* verification whose lookup raises, whose body cannot be decoded or whose
\* correcting save raises leaves add_task returning the record as it was
\* after the copy-back: synced, with the caller's text
VerificationAdvisory ==
    (last.op = "add" /\ last.outcome \in {"returned", "Error"}
       /\ last.copied_back /\ last.verify # "lookup") =>
        /\ last.outcome = "returned"
        /\ task = [last.copied EXCEPT !.api_ref = TRUE]
        /\ task.synced
        /\ task.text = last.desired_text

\* add_task has returned although the save correcting the server's summary
\* raised
CorrectionSaveRaised ==
    /\ last.op = "add"
    /\ last.outcome = "returned"
    /\ last.verify = "save raises"
    /\ last.fix
    /\ task.synced
    /\ task.uid = U_S
    /\ \E k \in 1..Len(store[last.list_uid]) :
          /\ store[last.list_uid][k].uid = U_S
          /\ Contains(store[last.list_uid][k].data, S_SUMMARY \o <<":">> \o SERVER_TEXT)

DeleteOutcomesDistinct ==
    (last.op = "delete" /\ last.outcome # "PermissionError") =>
        /\ last.outcome = "returned" =>
              (last.seen.b = "ok" /\ last.seen.found
                 /\ last.seen.listing # "raised")
        /\ (last.seen.has_calendar /\ last.seen.b = "ok" /\ ~last.seen.found) =>
              last.outcome = "ValueError"
        /\ (\/ last.seen.listing = "raised"
            \/ last.seen.has_calendar /\ last.seen.b = "lookup raises"
            \/ last.seen.found /\ last.seen.b = "delete raises") =>
              last.outcome = "Error"

\* C21: within one update_task call that found the item, the tiers are
\* attempted in the order 1, 2, 3, 4 without a gap, starting with the direct
\* property update; a tier is attempted only when every tier before it
\* raised, so none is attempted after one that ended without raising
LadderOrdered ==
    (last.op = "update" /\ last.found) =>
        /\ Len(last.attempts) >= 1
        /\ \A i \in 1..Len(last.attempts) :
              /\ last.attempts[i].tier = i
              /\ i < Len(last.attempts) => ~last.attempts[i].ok

\* update_task went down to set_summary, after the three tiers before it
\* raised, and returned
LadderFellToSetSummary ==
    /\ last.op = "update"
    /\ last.outcome = "returned"
    /\ last.ladder = LadderOnlySetSummary
    /\ Len(last.attempts) = 4
    /\ last.attempts[4].ok
    /\ last.tier = 4


\* the loaded records of list list_uid that have the uid
LoadedAs(list_uid, uid) ==
    {i \in 1..Len(TasksOfList(list_uid)) : TasksOfList(list_uid)[i].uid = uid}

\* C22: after update_task returned for a record, its first tier having gone
\* through on a store that keeps what is written, a complete reload holds a
\* record with that uid in that list, and the record has the summary, notes,
\* due and start dates, priority, parent, tags, recurrence rule, completion
\* status and extension properties the caller's record had at the call
UpdatePushesFields ==
    (/\ last.op = "load" /\ last.complete
     /\ last.prev.op = "update" /\ last.prev.outcome = "returned"
     /\ last.prev.tier = 1 /\ last.prev.post = "data"
     /\ StoreFaithful) =>
        /\ LoadedAs(last.prev.pre.list_uid, last.prev.pre.uid) # {}
        /\ \A i \in LoadedAs(last.prev.pre.list_uid, last.prev.pre.uid) :
              LET r == TasksOfList(last.prev.pre.list_uid)[i]
                  t == last.prev.pre
              IN  /\ r.text = t.text
                  /\ r.notes = t.notes
                  /\ r.due_date = t.due_date
                  /\ r.start_date = t.start_date
                  /\ r.priority = t.priority
                  /\ r.parent = t.parent
                  /\ r.tags = t.tags
                  /\ r.rrule = t.rrule
                  /\ r.completed = t.completed
                  /\ r.x_properties = t.x_properties

\* C23: during one update_task call that found the item, at most one tier
\* gets a write through to the store
SingleTierWrites ==
    (last.op = "update" /\ last.found) => Cardinality(last.written) <= 1

\* C24: in a writable session update_task for a record with an empty uid or
\* an empty list_uid ends in ValueError having called nothing on the server,
\* and the record is as it was at the call (changed_at and synced included)
UpdatePreconditions ==
    (/\ last.op = "update" /\ ~read_only
     /\ (last.pre.uid = <<>> \/ last.pre.list_uid = <<>>)) =>
        /\ last.outcome = "ValueError"
        /\ last.calls = 0
        /\ task = last.pre

\* update_task has refused a loaded, synced record whose uid the caller had
\* emptied, and left it synced
UpdateRefusedEmptyUid ==
    /\ last.op = "update"
    /\ ~read_only
    /\ last.outcome = "ValueError"
    /\ last.calls = 0
    /\ task.uid = <<>>
    /\ task.list_uid = L_1
    /\ task.synced
    /\ task.changed_at = NOW_1

\* C25: a step of update_task, in a writable session and for a record with
\* uid and list_uid, that finds no calendar with the record's list_uid, or
\* whose lookup finds no item with the record's uid in that calendar, ends
\* in ValueError with the record not synced and the store as it was
UpdateNotFound ==
    [][(/\ ops' = ops + 1 /\ last'.op = "update" /\ ~read_only
        /\ task.uid # <<>> /\ task.list_uid # <<>>
        /\ \/ ~HasCalendar(raw_calendars', task.list_uid)
           \/ /\ TodoByUid(store[task.list_uid], task.uid) = 0
              /\ last'.find = "ok") =>
          /\ last'.outcome = "ValueError"
          /\ ~task'.synced
          /\ store' = store]_vars

\* update_task has failed for a loaded, synced record whose item had been
\* deleted from the store, and the record is no longer synced
UpdateOfDeletedTask ==
    /\ last.op = "update"
    /\ last.outcome = "ValueError"
    /\ last.calls > 0
    /\ last.pre.synced
    /\ ~task.synced
    /\ last.pre.list_uid = L_1
    /\ last.pre.uid = U_P
    /\ TodoByUid(store[L_1], U_P) = 0

\* C29: a step in which the caller reads parent_task and child_tasks leaves
\* the loaded lists, the record and the store as they were; each accessor
\* looks at no more records than are loaded, also when the parent links of the
\* loaded tasks form a cycle; parent_task gives none when the record has no
\* parent or no loaded task has the parent's uid, and otherwise a task with
\* that uid; child_tasks gives only tasks whose parent is the record's uid
GraphAccessorsSafe ==
    [][last'.op = "graph" =>
          /\ task_lists' = task_lists
          /\ task' = task
          /\ store' = store
          /\ last'.parent_scanned <= Len(LoadedTasks)
          /\ last'.child_scanned <= Len(LoadedTasks)
          /\ (\/ task.parent = <<>>
              \/ \A i \in 1..Len(LoadedTasks) : LoadedTasks[i].uid # task.parent) =>
                last'.parent_task = NoTask
          /\ last'.parent_task # NoTask => last'.parent_task.uid = task.parent
          /\ \A i \in 1..Len(last'.child_tasks) :
                last'.child_tasks[i].parent = task.uid]_vars

\* the accessors were read for a loaded task that names itself as parent:
\* it is its own parent and one of its own children
GraphReadOnSelfParent ==
    /\ last.op = "graph"
    /\ picked # <<>>
    /\ task.parent = task.uid
    /\ last.parent_task = task
    /\ \E i \in 1..Len(last.child_tasks) : last.child_tasks[i] = task
    /\ last.parent_scanned >= 1

\* get_task_by_global_uid(task_uid) on the given lists
LookupIn(lists, task_uid) ==
    LET found == SelectSeq(TasksFrom(lists, 1), LAMBDA t : t.uid = task_uid)
    IN  IF found = <<>> THEN NoTask ELSE found[1]

\* what a step does to the loaded lists: a step of add_task, update_task or
\* delete_task keeps the lists, their uids, the length of each task sequence
\* and every entry (the record the caller picked from them is the same
\* object, with the fields the call gave it); a task for which delete_task
\* returned is resolved by get_task_by_global_uid as before; a task for which
\* add_task returned is not resolved by its uid (with only_new: when the
\* record is not one of the loaded and no loaded task had that uid);
\* a step of load_remote_data gives one list per listed calendar, in their
\* order, and none of its tasks is the record the caller holds
ListsStep(only_new) ==
    /\ ops' = ops + 1 =>
        /\ Len(task_lists') = Len(task_lists)
        /\ picked' = picked
        /\ \A i \in 1..Len(task_lists) :
              /\ task_lists'[i].uid = task_lists[i].uid
              /\ Len(task_lists'[i].tasks) = Len(task_lists[i].tasks)
              /\ \A j \in 1..Len(task_lists[i].tasks) :
                    task_lists'[i].tasks[j] =
                        IF <<i, j>> = picked THEN task'
                        ELSE task_lists[i].tasks[j]
        /\ (last'.op = "delete" /\ last'.outcome = "returned") =>
              LookupIn(task_lists', last'.task_uid) =
                  LookupIn(task_lists, last'.task_uid)
        /\ (/\ last'.op = "add" /\ last'.outcome = "returned"
            /\ only_new => (picked = <<>> /\ FirstLoaded(task'.uid) = 0)) =>
              LookupIn(task_lists', task'.uid) = NoTask
    /\ (last'.op = "load" /\ last' # last) =>
        /\ Len(task_lists') = Len(raw_calendars')
        /\ \A i \in 1..Len(task_lists') : task_lists'[i].uid = raw_calendars'[i]
        /\ picked' = <<>>

\* C30: add_task, update_task and delete_task leave the loaded lists and
\* their task sequences as they are, so that a deleted task stays resolvable
\* and a created task, when its record is not one of the loaded and no loaded
\* task has its uid, is not resolvable by uid until the next load;
\* load_remote_data replaces the lists by one list per listed calendar
OnlyReloadChangesLists == [][ListsStep(TRUE)]_vars

\* the same with a created task never resolvable by uid before the next load
OnlyReloadChangesListsAlways == [][ListsStep(FALSE)]_vars

\* add_task has returned for a new record while lists were loaded: the store
\* holds the task, the loaded lists do not
CreatedButNotLoaded ==
    /\ last.op = "add"
    /\ last.outcome = "returned"
    /\ picked = <<>>
    /\ task_lists # <<>>
    /\ TodoByUid(store[task.list_uid], task.uid) # 0
    /\ GetTaskByGlobalUid(task.uid) = NoTask
====
